---- MODULE Spec2Model ----
(***************************************************************************)
(* A model of the pulse synchronisation engine of                          *)
(* src/synchronizer/prediction_engine.py: DeviceClockSync, EventFusion and  *)
(* TempoTracker.  Each component has its own initial predicate, actions and *)
(* specification (SpecFusion, SpecClock, SpecTempo, SpecSteady); in the     *)
(* specification of one component the others stay as constructed.           *)
(*                                                                          *)
(* Numbers.  The program computes with Python floats.  Here every time is   *)
(* an integer number of microseconds (1 ms = 1000), so that whole and half  *)
(* milliseconds, and with them the median of a list of whole-millisecond    *)
(* values, are exact.  A bpm is an integer number of milli-bpm.  A drift is *)
(* an integer number of parts per million.  Quotients that are not integers *)
(* are rounded to the nearest unit, as a float is rounded to the nearest    *)
(* representable value.                                                     *)
(*                                                                          *)
(* Optional values: None is the empty sequence, a present value v is <<v>>. *)
(***************************************************************************)
EXTENDS Integers, Sequences, FiniteSets, TLC

VARIABLES
    \* EventFusion (prediction_engine.py:166-168)
    clusters,           \* self.clusters: list of lists of ServerEvent
    canonical_events,   \* self.canonical_events: deque(maxlen=1000)
    add_ret,            \* the value the last add_event call returned
    last_event,         \* the argument of the last add_event call
    fusion_added,       \* the number of add_event calls so far
    \* DeviceClockSync (prediction_engine.py:87-91)
    offsets,            \* self.offsets: device_id -> offset
    drifts,             \* self.drifts: device_id -> drift
    offset_history,     \* self.offset_history: device_id -> deque of (t0, offset)
    last_ping,          \* the arguments of the last update_from_ping call
    ping_count,         \* the number of update_from_ping calls so far
    conv_call,          \* the arguments of the last convert_to_server_time call
    conv_ret,           \* the value that call returned
    \* TempoTracker (prediction_engine.py:246-252)
    bpm,                \* self.bpm, in milli-bpm
    beat_ms,            \* self.beat_ms
    t_last_beat,        \* self.t_last_beat: None until the first event
    tempo_last,         \* the last update call: its event time, k and err
    tempo_updates,      \* the number of update calls so far
    phrase_call,        \* the argument of the last get_next_phrase_start call
    phrase_ret,         \* the value that call returned
    \* GridEncoder (prediction_engine.py:313-316)
    hist_onset,         \* self.hist_onset: slot -> 0 or 1
    hist_hold,          \* self.hist_hold: slot -> 0 or 1
    hist_conf,          \* self.hist_conf: slot -> confidence, a fraction
    hist_start_time,    \* self.hist_start_time: None until the first event
    grid_call,          \* the arguments of the last GridEncoder.add_event call
    grid_count,         \* the number of GridEncoder.add_event calls so far
    \* SlotPriorModel (slot_prior_model.py:24-28)
    p_onset,            \* self.p_onset: None, or slot -> count / N
    median_dur_slots,   \* self.median_dur_slots: None, or slot -> slots
    confidence,         \* self.confidence: None, or slot -> fraction
    sample_count,       \* self.sample_count
    prior_call,         \* the arguments of the last update_from_patterns call
    boot_ret,           \* what BootstrapPhrasePredictor.predict_phrase returned
    \* DeterministicPredictor (prediction_engine.py:355-357)
    pattern_ema,        \* self.pattern_ema: None, or slot -> num / den
    dur_patterns,       \* self.dur_patterns: slot_pos -> list of durations
    \* PredictionEngine (prediction_engine.py:436-447)
    mode,               \* self.mode
    bootstrap_predictor,\* self.bootstrap_predictor is set
    last_update_time,   \* self.last_update_time
    engine_call,        \* the last call of an engine method
    engine_ret,         \* the value that call returned
    predict_count,      \* the number of predict_phrase calls so far
    pulses_sent,        \* device -> the number of its pulses processed
    \* threads calling the engine (prediction_engine.py:447)
    lock,               \* self.lock: None, or the thread that holds it
    thread_pc,          \* thread -> where it is in its call
    thread_call,        \* thread -> its call: arguments, locals, return value
    calls_started,      \* the number of calls started so far
    \* PredictionAPI (prediction_api.py:33-35)
    database,           \* self.database: "ok", "raises" or "absent"
    db_log,             \* the database calls of the last request
    db_next_id,         \* the next record id the database hands out
    api_call,           \* the last request handled
    api_ret             \* the response to it

fusionVars == <<clusters, canonical_events, add_ret, last_event, fusion_added>>

clockVars == <<offsets, drifts, offset_history, last_ping, ping_count,
               conv_call, conv_ret>>

tempoVars == <<bpm, beat_ms, t_last_beat, tempo_last, tempo_updates,
               phrase_call, phrase_ret>>

gridVars == <<hist_onset, hist_hold, hist_conf, hist_start_time,
              grid_call, grid_count>>

priorVars == <<p_onset, median_dur_slots, confidence, sample_count,
               prior_call, boot_ret>>

predictorVars == <<pattern_ema, dur_patterns>>

engineVars == <<mode, bootstrap_predictor, last_update_time,
                engine_call, engine_ret, predict_count, pulses_sent>>

threadVars == <<lock, thread_pc, thread_call, calls_started>>

apiVars == <<database, db_log, db_next_id, api_call, api_ret>>

vars == <<fusionVars, clockVars, tempoVars, gridVars, priorVars,
          predictorVars, engineVars, threadVars, apiVars>>

\* What an operation of one component leaves alone: the other components.
engineOwn == <<predictorVars, engineVars, threadVars, apiVars>>

exceptFusion == <<clockVars, tempoVars, gridVars, priorVars, engineOwn>>

exceptClock == <<fusionVars, tempoVars, gridVars, priorVars, engineOwn>>

exceptTempo == <<fusionVars, clockVars, gridVars, priorVars, engineOwn>>

exceptGrid == <<fusionVars, clockVars, tempoVars, priorVars, engineOwn>>

exceptPrior == <<fusionVars, clockVars, tempoVars, gridVars, engineOwn>>

exceptEngine == <<priorVars, threadVars, apiVars>>

---------------------------------------------------------------------------
(* Numbers *)

US == 1000

\* The one element of a set of one element.  { e(x) : x \in {v} } computes v
\* once, however often e uses it.
Only(S) == CHOOSE x \in S : TRUE

None == <<>>

Some(x) == <<x>>

Abs(x) == IF x < 0 THEN -x ELSE x

Range(s) == {s[i] : i \in 1..Len(s)}

RECURSIVE SumSeq(_)
SumSeq(s) == IF s = <<>> THEN 0 ELSE Head(s) + SumSeq(Tail(s))

\* n / d rounded to the nearest integer, d > 0
RoundDiv(n, d) == (2 * n + d) \div (2 * d)

\* the integer square root, floor(sqrt(n)), n >= 0
ISqrt(n) == CHOOSE r \in 0..(n + 1) : r * r <= n /\ (r + 1) * (r + 1) > n

\* Median with the lower of the two middle values taken for an even count.
Median_LowerMiddle(s) ==
    LET sorted == SortSeq(s, LAMBDA a, b : a < b)
    IN  sorted[(Len(s) + 1) \div 2]

\* np.median of a non-empty list: the middle value of the sorted list, or
\* the average of the two middle values when the count is even.
Median(s) ==
    LET sorted == SortSeq(s, LAMBDA a, b : a < b)
        n == Len(s)
    IN  IF n % 2 = 1
        THEN sorted[(n + 1) \div 2]
        ELSE RoundDiv(sorted[n \div 2] + sorted[n \div 2 + 1], 2)

\* np.std of a list (population standard deviation), at a resolution of
\* SpreadUnit microseconds.
SpreadUnit == 100

Std(s) ==
    LET n == Len(s)
        scaled(lo) == [i \in 1..n |-> RoundDiv(s[i] - lo, SpreadUnit)]
        spread(d) ==
            Only({(ISqrt(v) * SpreadUnit) \div n :
                     v \in {n * SumSeq([i \in 1..n |-> d[i] * d[i]])
                               - SumSeq(d) * SumSeq(d)}})
    IN  Only({Only({spread(d) : d \in {scaled(lo)}}) :
                 lo \in {CHOOSE x \in Range(s) : \A y \in Range(s) : x <= y}})

\* deque(maxlen=m).append(x)
DequeAppend(q, x, m) ==
    IF Len(q) >= m THEN Append(Tail(q), x) ELSE Append(q, x)

---------------------------------------------------------------------------
(* EventFusion *)

window_ms == 30000

CanonicalMaxLen == 1000

MaxEvents == 5

ServerEvent(t, dur, dev, src) ==
    [t_server_ms |-> t, dur_ms |-> dur, device_id |-> dev, source_id |-> src]

\* The events add_event is called with: whole-millisecond timestamps around
\* the window (30 ms) and twice the window (60 ms); source_id "" is None.
Pulses == {
    ServerEvent(100 * US, 50 * US, "d1", ""),
    ServerEvent(120 * US, 80 * US, "d2", "mic"),
    ServerEvent(135 * US, 65 * US, "d1", "mic"),
    ServerEvent(150 * US, 40 * US, "d2", ""),
    ServerEvent(160 * US, 100 * US, "d1", ""),
    ServerEvent(200 * US, 30 * US, "d2", "mic"),
    ServerEvent(220 * US, 55 * US, "d1", "") }

Timestamps(cluster) == [i \in 1..Len(cluster) |-> cluster[i].t_server_ms]

Durations(cluster) == [i \in 1..Len(cluster) |-> cluster[i].dur_ms]

\* f"{e.device_id}:{e.source_id}" if e.source_id else e.device_id
Contributor(e) ==
    IF e.source_id # "" THEN e.device_id \o ":" \o e.source_id ELSE e.device_id

create_canonical(cluster) ==
    IF cluster = <<>> THEN None
    ELSE Some([t_server_ms |-> Median(Timestamps(cluster)),
               dur_ms |-> Median(Durations(cluster)),
               conf |-> Len(cluster),
               spread_ms |-> IF Len(cluster) > 1 THEN Std(Timestamps(cluster)) ELSE 0,
               contributors |-> [i \in 1..Len(cluster) |-> Contributor(cluster[i])]])

\* WithinWindow with four windows for one: an event joins a cluster that
\* lags it by more than twice the window.
WithinWindow_FourWindows(event, cluster) ==
    Abs(event.t_server_ms - Median(Timestamps(cluster))) <= 4 * window_ms

\* line 182: the event is within the window of the cluster's median
WithinWindow(event, cluster) ==
    Abs(event.t_server_ms - Median(Timestamps(cluster))) <= window_ms

\* MatchedCluster with the loop's break left out: the last match wins.
MatchedCluster_LastMatch(cls, event) ==
    LET m == {i \in 1..Len(cls) : cls[i] # <<>> /\ WithinWindow(event, cls[i])}
    IN  IF m = {} THEN 0 ELSE CHOOSE i \in m : \A j \in m : i >= j

\* lines 178-184: the index of the first cluster the event matches, 0 if none
MatchedCluster(cls, event) ==
    LET m == {i \in 1..Len(cls) : cls[i] # <<>> /\ WithinWindow(event, cls[i])}
    IN  IF m = {} THEN 0 ELSE CHOOSE i \in m : \A j \in m : i <= j

\* lines 186-190
InsertEvent(cls, event) ==
    LET i == MatchedCluster(cls, event)
    IN  IF i # 0 THEN [cls EXCEPT ![i] = Append(@, event)]
        ELSE Append(cls, <<event>>)

\* IsStale with >= for >.
IsStale_AtLeast(current_time, cluster) ==
    current_time - Median(Timestamps(cluster)) >= 2 * window_ms

\* IsStale with three windows for two.
IsStale_ThreeWindows(current_time, cluster) ==
    current_time - Median(Timestamps(cluster)) > 3 * window_ms

\* line 199: the cluster lags the incoming event by more than twice the window
IsStale(current_time, cluster) ==
    current_time - Median(Timestamps(cluster)) > 2 * window_ms

\* ListRemove that removes nothing: a finalized cluster stays open.
ListRemove_Nothing(l, x) == l

\* list.remove(x): drops the first element equal to x
ListRemove(l, x) ==
    LET hits == {i \in 1..Len(l) : l[i] = x}
    IN  IF hits = {} THEN l
        ELSE LET k == CHOOSE i \in hits : \A j \in hits : i <= j
             IN  SubSeq(l, 1, k - 1) \o SubSeq(l, k + 1, Len(l))

\* lines 196-205: the loop over list(self.clusters), from index i of the copy
RECURSIVE FinalizeLoop(_, _, _, _)
FinalizeLoop(copy, i, current_time, st) ==
    IF i > Len(copy) THEN st
    ELSE LET finalized(cluster, canonical) ==
                 [clusters |-> ListRemove(st.clusters, cluster),
                  finalized |-> IF canonical # None
                                THEN Append(st.finalized, canonical[1])
                                ELSE st.finalized,
                  canonical_events |->
                      IF canonical # None
                      THEN DequeAppend(st.canonical_events, canonical[1],
                                       CanonicalMaxLen)
                      ELSE st.canonical_events]
             stale(cluster) ==
                 Only({FinalizeLoop(copy, i + 1, current_time, st1) :
                          st1 \in {finalized(cluster, create_canonical(cluster))}})
         IN  Only({IF cluster # <<>> /\ IsStale(current_time, cluster)
                   THEN stale(cluster)
                   ELSE FinalizeLoop(copy, i + 1, current_time, st) :
                      cluster \in {copy[i]}})

\* add_event returning the last canonical event finalized in the call.
add_event_ReturnsLast(cls, canon, event) ==
    LET finalize(inserted, st0) ==
            FinalizeLoop(inserted, 1, event.t_server_ms, st0)
        result(st) ==
            [clusters |-> st.clusters,
             canonical_events |-> st.canonical_events,
             ret |-> IF st.finalized # <<>>
                     THEN Some(st.finalized[Len(st.finalized)]) ELSE None]
    IN  Only({result(st) :
                 st \in {Only({finalize(inserted, st0) :
                                  st0 \in {[clusters |-> inserted,
                                            finalized |-> <<>>,
                                            canonical_events |-> canon]}}) :
                            inserted \in {InsertEvent(cls, event)}}})

\* EventFusion.add_event: the state after the call and the value returned
add_event(cls, canon, event) ==
    LET finalize(inserted, st0) ==
            FinalizeLoop(inserted, 1, event.t_server_ms, st0)
        result(st) ==
            [clusters |-> st.clusters,
             canonical_events |-> st.canonical_events,
             ret |-> IF st.finalized # <<>> THEN Some(st.finalized[1]) ELSE None]
    IN  Only({result(st) :
                 st \in {Only({finalize(inserted, st0) :
                                  st0 \in {[clusters |-> inserted,
                                            finalized |-> <<>>,
                                            canonical_events |-> canon]}}) :
                            inserted \in {InsertEvent(cls, event)}}})

FusionInit ==
    /\ clusters = <<>>
    /\ canonical_events = <<>>
    /\ add_ret = None
    /\ last_event = None
    /\ fusion_added = 0

AddEvent ==
    /\ fusion_added < MaxEvents
    /\ \E event \in Pulses :
         LET r == add_event(clusters, canonical_events, event)
         IN  /\ clusters' = r.clusters
             /\ canonical_events' = r.canonical_events
             /\ add_ret' = r.ret
             /\ last_event' = Some(event)
    /\ fusion_added' = fusion_added + 1
    /\ UNCHANGED exceptFusion

FusionNext == AddEvent

\* A stream of events with increasing timestamps: the first at 0, each
\* later one a gap after the one before, up to StreamEnd.  The gaps are
\* below the window, between one and two windows, and above two windows.
StreamGaps == {10 * US, 40 * US, 70 * US}

StreamEnd == 200 * US

AddLater ==
    /\ \E t \in IF last_event = None THEN {0}
                ELSE {last_event[1].t_server_ms + g : g \in StreamGaps} :
         /\ t <= StreamEnd
         /\ \E event \in {ServerEvent(t, 50 * US, "d1", "")} :
            \E r \in {add_event(clusters, canonical_events, event)} :
              /\ clusters' = r.clusters
              /\ canonical_events' = r.canonical_events
              /\ add_ret' = r.ret
              /\ last_event' = Some(event)
    /\ fusion_added' = fusion_added + 1
    /\ UNCHANGED exceptFusion

StreamNext == AddLater

---------------------------------------------------------------------------
(* DeviceClockSync *)

\* alpha = AlphaNum / AlphaDen = 0.1
AlphaNum == 1

AlphaDen == 10

max_history == 50

\* len(history) >= 10 before a drift is estimated
MinDriftSamples == 10

\* a drift of 1.0, in parts per million
DriftOne == 1000000

MaxPings == 10

Devices == {"d1", "d2"}

\* The (t0_device, t1_server, t2_device) round trips update_from_ping is
\* called with: raw offsets of 45.5 ms and 55 ms, 100 ms of device time apart.
PingSamples == { <<0, 50 * US, 9 * US>>, <<100 * US, 170 * US, 130 * US>> }

\* The device times convert_to_server_time is called with.
DeviceTimes == {0, 200 * US}

EmptyDict == [k \in {} |-> 0]

\* d[k] = v
DictSet(d, k, v) == [x \in DOMAIN d \cup {k} |-> IF x = k THEN v ELSE d[x]]

\* x * ppm / 10^6, rounded: the product of a time and a drift
MulDrift(x, ppm) ==
    LET q == RoundDiv(ppm, DriftOne)
        r == ppm - q * DriftOne
    IN  x * q + RoundDiv(x * r, DriftOne)

\* lines 103-105
ping_offset(t0_device, t1_server, t2_device) ==
    LET rtt == t2_device - t0_device
        one_way == RoundDiv(rtt, 2)
    IN  t1_server - (t0_device + one_way)

\* line 113: the offset blended in with gain alpha
ema_offset(old_offset, new_offset) ==
    RoundDiv((AlphaDen - AlphaNum) * old_offset + AlphaNum * new_offset, AlphaDen)

\* _estimate_drift: the drift of a device after the call, given its history
estimate_drift(history, drift) ==
    IF Len(history) < MinDriftSamples THEN drift
    ELSE IF Len(history) > 1
         THEN LET dt == history[Len(history)][1] - history[1][1]
              IN  IF dt > 0
                  THEN LET doffset == history[Len(history)][2] - history[1][2]
                       IN  DriftOne + RoundDiv(doffset * 1000, dt)
                  ELSE drift
         ELSE drift

\* update_from_ping whose first sample is blended with an offset of zero.
update_from_ping_BlendFirst(st, device_id, t0_device, t1_server, t2_device) ==
    LET new_offset == ping_offset(t0_device, t1_server, t2_device)
        known == device_id \in DOMAIN st.offsets
        offs == DictSet(st.offsets, device_id,
                        ema_offset(IF known THEN st.offsets[device_id] ELSE 0,
                                   new_offset))
        drs == IF known THEN st.drifts ELSE DictSet(st.drifts, device_id, DriftOne)
        hist0 == IF known THEN st.offset_history
                 ELSE DictSet(st.offset_history, device_id, <<>>)
        hist == DictSet(hist0, device_id,
                        DequeAppend(hist0[device_id], <<t0_device, new_offset>>,
                                    max_history))
    IN  [offsets |-> offs,
         drifts |-> IF Len(hist[device_id]) >= MinDriftSamples
                    THEN DictSet(drs, device_id,
                                 estimate_drift(hist[device_id], drs[device_id]))
                    ELSE drs,
         offset_history |-> hist]

\* update_from_ping: the clock-sync state after the call
update_from_ping(st, device_id, t0_device, t1_server, t2_device) ==
    LET new_offset == ping_offset(t0_device, t1_server, t2_device)
        known == device_id \in DOMAIN st.offsets
        offs == DictSet(st.offsets, device_id,
                        IF known THEN ema_offset(st.offsets[device_id], new_offset)
                        ELSE new_offset)
        drs == IF known THEN st.drifts ELSE DictSet(st.drifts, device_id, DriftOne)
        hist0 == IF known THEN st.offset_history
                 ELSE DictSet(st.offset_history, device_id, <<>>)
        hist == DictSet(hist0, device_id,
                        DequeAppend(hist0[device_id], <<t0_device, new_offset>>,
                                    max_history))
    IN  [offsets |-> offs,
         drifts |-> IF Len(hist[device_id]) >= MinDriftSamples
                    THEN DictSet(drs, device_id,
                                 estimate_drift(hist[device_id], drs[device_id]))
                    ELSE drs,
         offset_history |-> hist]

\* convert_to_server_time that applies the offset and leaves the drift out.
convert_to_server_time_NoDrift(st, device_id, t_device_ms) ==
    IF device_id \in DOMAIN st.offsets
    THEN [ret |-> t_device_ms + st.offsets[device_id], st |-> st]
    ELSE [ret |-> t_device_ms, st |-> st]

\* convert_to_server_time: the value returned and the state after the call
convert_to_server_time(st, device_id, t_device_ms) ==
    IF device_id \notin DOMAIN st.offsets
    THEN [ret |-> t_device_ms, st |-> st]
    ELSE LET offset == st.offsets[device_id]
             drift == IF device_id \in DOMAIN st.drifts
                      THEN st.drifts[device_id] ELSE DriftOne
         IN  [ret |-> MulDrift(t_device_ms, drift) + offset, st |-> st]

ClockState == [offsets |-> offsets, drifts |-> drifts,
               offset_history |-> offset_history]

ClockInit ==
    /\ offsets = EmptyDict
    /\ drifts = EmptyDict
    /\ offset_history = EmptyDict
    /\ last_ping = None
    /\ ping_count = 0
    /\ conv_call = None
    /\ conv_ret = None

Ping ==
    /\ ping_count < MaxPings
    /\ \E d \in Devices, p \in PingSamples :
         LET st == update_from_ping(ClockState, d, p[1], p[2], p[3])
         IN  /\ offsets' = st.offsets
             /\ drifts' = st.drifts
             /\ offset_history' = st.offset_history
             /\ last_ping' = Some(<<d, p[1], p[2], p[3]>>)
    /\ ping_count' = ping_count + 1
    /\ conv_call' = None
    /\ conv_ret' = None
    /\ UNCHANGED exceptClock

Convert ==
    /\ \E d \in Devices, t \in DeviceTimes :
         LET r == convert_to_server_time(ClockState, d, t)
         IN  /\ offsets' = r.st.offsets
             /\ drifts' = r.st.drifts
             /\ offset_history' = r.st.offset_history
             /\ conv_call' = Some(<<d, t>>)
             /\ conv_ret' = Some(r.ret)
    /\ UNCHANGED <<last_ping, ping_count>>
    /\ UNCHANGED exceptClock

ClockNext == Ping \/ Convert

---------------------------------------------------------------------------
(* TempoTracker *)

min_bpm == 60000

max_bpm == 200000

default_bpm == 120000

\* phase_gain = 1 / PhaseGainDen = 0.2
PhaseGainDen == 5

\* tempo_gain = 1 / TempoGainDen = 0.001
TempoGainDen == 1000

slots_per_beat == 32

MaxUpdates == 4

MaxSteadyEvents == 24

\* The initial_bpm values a tracker is constructed with.
InitialBpms == {min_bpm, default_bpm, max_bpm}

\* The timestamps of the canonical events update is called with: on the
\* beat grid of 120 bpm, half-way between two beats, early, late, far off.
EventTimes == {1000 * US, 1250 * US, 1490 * US, 1500 * US, 2010 * US, 5130 * US}

\* The times get_next_phrase_start is called with.
NowTimes == {900 * US, 1000 * US, 1492 * US, 1500 * US, 1700 * US}

\* The first events of a stream of events exactly 500 ms apart.
SteadyStarts == {0, 1000 * US, 1234 * US, 5000 * US, 99999 * US}

SteadyPeriod == 500 * US

\* 60_000.0 / x: a beat length from a bpm, a bpm from a beat length
SixtyThousandOver(x) ==
    LET a == 60000 * US
    IN  (a \div x) * US + RoundDiv((a % x) * US, x)

\* round(n / d), d > 0: Python rounds a tie to the even neighbour
RoundHalfEven(n, d) ==
    LET q == n \div d
        r == n - q * d
    IN  IF 2 * r < d THEN q
        ELSE IF 2 * r > d THEN q + 1
        ELSE IF q % 2 = 0 THEN q ELSE q + 1

\* int(np.ceil(n / d)), d > 0
CeilDiv(n, d) == -((-n) \div d)

\* np.sign
Sign(k) == IF k > 0 THEN 1 ELSE IF k < 0 THEN -1 ELSE 0

Max(a, b) == IF a >= b THEN a ELSE b

Min(a, b) == IF a <= b THEN a ELSE b

\* line 281
clamp_bpm(x) == Max(min_bpm, Min(max_bpm, x))

\* nearest_beat that takes every later event for the next beat.
nearest_beat_NextOnly(t_e, t_last, beat) ==
    IF RoundHalfEven(t_e - t_last, beat) > 0 THEN 1
    ELSE RoundHalfEven(t_e - t_last, beat)

\* line 264: the index of the beat nearest to the event
nearest_beat(t_e, t_last, beat) == RoundHalfEven(t_e - t_last, beat)

\* update that clamps bpm and keeps the unclamped beat_ms.
update_KeepsBeat(tr, t_e) ==
    IF tr.t_last_beat = None
    THEN [bpm |-> tr.bpm, beat_ms |-> tr.beat_ms, t_last_beat |-> Some(t_e),
          k |-> 0, err |-> 0]
    ELSE LET k == nearest_beat(t_e, tr.t_last_beat[1], tr.beat_ms)
             t_pred == tr.t_last_beat[1] + k * tr.beat_ms
             err == t_e - t_pred
             t_last == tr.t_last_beat[1] + RoundDiv(err, PhaseGainDen)
         IN  IF k # 0
             THEN LET tempo_adjustment == RoundDiv(err * Sign(k), TempoGainDen)
                      beat1 == tr.beat_ms + tempo_adjustment
                      bpm1 == clamp_bpm(SixtyThousandOver(beat1))
                  IN  [bpm |-> bpm1, beat_ms |-> beat1,
                       t_last_beat |-> Some(t_last), k |-> k, err |-> err]
             ELSE [bpm |-> tr.bpm, beat_ms |-> tr.beat_ms,
                   t_last_beat |-> Some(t_last), k |-> k, err |-> err]

\* TempoTracker.update: the tracker after the call, with the call's k and err
update(tr, t_e) ==
    IF tr.t_last_beat = None
    THEN [bpm |-> tr.bpm, beat_ms |-> tr.beat_ms, t_last_beat |-> Some(t_e),
          k |-> 0, err |-> 0]
    ELSE LET k == nearest_beat(t_e, tr.t_last_beat[1], tr.beat_ms)
             t_pred == tr.t_last_beat[1] + k * tr.beat_ms
             err == t_e - t_pred
             t_last == tr.t_last_beat[1] + RoundDiv(err, PhaseGainDen)
         IN  IF k # 0
             THEN LET tempo_adjustment == RoundDiv(err * Sign(k), TempoGainDen)
                      beat1 == tr.beat_ms + tempo_adjustment
                      bpm1 == clamp_bpm(SixtyThousandOver(beat1))
                  IN  [bpm |-> bpm1, beat_ms |-> SixtyThousandOver(bpm1),
                       t_last_beat |-> Some(t_last), k |-> k, err |-> err]
             ELSE [bpm |-> tr.bpm, beat_ms |-> tr.beat_ms,
                   t_last_beat |-> Some(t_last), k |-> k, err |-> err]

\* get_slot_ms: beat_ms / 32.0, kept as a fraction
get_slot_ms(tr) == [num |-> tr.beat_ms, den |-> slots_per_beat]

\* get_next_phrase_start that rounds the slot index up to a multiple of 32.
get_next_phrase_start_RoundUp(tr, t_now_ms) ==
    IF tr.t_last_beat = None THEN t_now_ms
    ELSE LET slot_ms == get_slot_ms(tr)
             slot_idx_now == CeilDiv((t_now_ms - tr.t_last_beat[1]) * slot_ms.den,
                                     slot_ms.num)
             next_beat_slot == CeilDiv(slot_idx_now, 32) * 32
         IN  tr.t_last_beat[1] + RoundDiv(next_beat_slot * slot_ms.num, slot_ms.den)

\* TempoTracker.get_next_phrase_start
get_next_phrase_start(tr, t_now_ms) ==
    IF tr.t_last_beat = None THEN t_now_ms
    ELSE LET slot_ms == get_slot_ms(tr)
             slot_idx_now == CeilDiv((t_now_ms - tr.t_last_beat[1]) * slot_ms.den,
                                     slot_ms.num)
             next_beat_slot == ((slot_idx_now \div 32) + 1) * 32
         IN  tr.t_last_beat[1] + RoundDiv(next_beat_slot * slot_ms.num, slot_ms.den)

Tracker == [bpm |-> bpm, beat_ms |-> beat_ms, t_last_beat |-> t_last_beat]

\* TempoTracker.__init__
TempoInitWith(initial_bpm) ==
    /\ bpm = initial_bpm
    /\ beat_ms = SixtyThousandOver(initial_bpm)
    /\ t_last_beat = None
    /\ tempo_last = None
    /\ tempo_updates = 0
    /\ phrase_call = None
    /\ phrase_ret = None

TempoInit == TempoInitWith(default_bpm)

UpdateWith(t_e) ==
    LET r == update(Tracker, t_e)
    IN  /\ bpm' = r.bpm
        /\ beat_ms' = r.beat_ms
        /\ t_last_beat' = r.t_last_beat
        /\ tempo_last' = Some([t |-> t_e, k |-> r.k, err |-> r.err])
        /\ tempo_updates' = tempo_updates + 1
        /\ phrase_call' = None
        /\ phrase_ret' = None
        /\ UNCHANGED exceptTempo

Update ==
    /\ tempo_updates < MaxUpdates
    /\ \E t_e \in EventTimes : UpdateWith(t_e)

GetNextPhraseStart ==
    /\ \E t_now \in NowTimes :
         /\ phrase_call' = Some(t_now)
         /\ phrase_ret' = Some(get_next_phrase_start(Tracker, t_now))
    /\ UNCHANGED <<bpm, beat_ms, t_last_beat, tempo_last, tempo_updates>>
    /\ UNCHANGED exceptTempo

TempoNext == Update \/ GetNextPhraseStart

\* A stream of events exactly SteadyPeriod apart
SteadyUpdate ==
    /\ tempo_updates < MaxSteadyEvents
    /\ IF tempo_last = None
       THEN \E t_e \in SteadyStarts : UpdateWith(t_e)
       ELSE UpdateWith(tempo_last[1].t + SteadyPeriod)

SteadyNext == SteadyUpdate

---------------------------------------------------------------------------
(* GridEncoder *)

history_beats == 8

\* line 312: history_beats * 32
history_slots == history_beats * slots_per_beat

\* conf / 5.0 reaches 1.0 at five contributors
ConfFull == 5

MaxGridEvents == 2

\* a fraction num / den, den > 0
Frac(n, d) == [num |-> n, den |-> d]

\* [0.0] * n, indexed from 0 as in the program
Zeros(n) == [i \in 0..(n - 1) |-> 0]

\* The slot_ms values add_event is called with: 15.625 ms (120 bpm) and 16 ms.
GridSlotMs == {Frac(500 * US, 32), Frac(512 * US, 32)}

\* The hist_start_time values add_event is called with.
GridStarts == {0, 1000 * US}

\* The canonical events add_event is called with, their times relative to
\* hist_start_time: before the window, in its first slots, half-way between
\* two slots, in its last slot, at its end and beyond.
GridEvents == {
    [t_rel |-> -16 * US, dur_ms |-> 50 * US, conf |-> 1],
    [t_rel |-> -8 * US, dur_ms |-> 50 * US, conf |-> 2],
    [t_rel |-> 0, dur_ms |-> 0, conf |-> 1],
    [t_rel |-> 24 * US, dur_ms |-> 100 * US, conf |-> 7],
    [t_rel |-> 40 * US, dur_ms |-> 40 * US, conf |-> 5],
    [t_rel |-> 3984375, dur_ms |-> 50 * US, conf |-> 3],
    [t_rel |-> 4000 * US, dur_ms |-> 50 * US, conf |-> 3],
    [t_rel |-> 4080 * US, dur_ms |-> 100 * US, conf |-> 4],
    [t_rel |-> 4088 * US, dur_ms |-> 10 * US, conf |-> 1],
    [t_rel |-> 4096 * US, dur_ms |-> 50 * US, conf |-> 2],
    [t_rel |-> 9000 * US, dur_ms |-> 50 * US, conf |-> 1] }

\* grid_slot with int() applied without round(): the slot is cut off.
grid_slot_Truncated(t_server_ms, slot_ms, hist_start) ==
    ((t_server_ms - hist_start) * slot_ms.den) \div slot_ms.num

\* line 324: int(round((event.t_server_ms - hist_start_time) / slot_ms))
grid_slot(t_server_ms, slot_ms, hist_start) ==
    RoundHalfEven((t_server_ms - hist_start) * slot_ms.den, slot_ms.num)

\* line 331: max(1, int(round(event.dur_ms / slot_ms)))
grid_dur_slots(dur_ms, slot_ms) ==
    Max(1, RoundHalfEven(dur_ms * slot_ms.den, slot_ms.num))

\* line 336: min(1.0, event.conf / 5.0)
grid_conf(conf) == Frac(Min(ConfFull, conf), ConfFull)

\* GridEncoder.add_event: the encoder after the call
grid_add_event(g, event, slot_ms, hist_start) ==
    LET start == IF g.hist_start_time = None THEN Some(hist_start)
                 ELSE g.hist_start_time
        s == grid_slot(event.t_server_ms, slot_ms, hist_start)
    IN  IF 0 <= s /\ s < history_slots
        THEN LET dur_slots == grid_dur_slots(event.dur_ms, slot_ms)
                 stop == Min(s + dur_slots, history_slots)
             IN  [hist_onset |-> [g.hist_onset EXCEPT ![s] = 1],
                  hist_hold |-> [j \in 0..(history_slots - 1) |->
                                    IF s <= j /\ j < stop THEN 1
                                    ELSE g.hist_hold[j]],
                  hist_conf |-> [g.hist_conf EXCEPT ![s] = grid_conf(event.conf)],
                  hist_start_time |-> start]
        ELSE [g EXCEPT !.hist_start_time = start]

Grid == [hist_onset |-> hist_onset, hist_hold |-> hist_hold,
         hist_conf |-> hist_conf, hist_start_time |-> hist_start_time]

\* GridEncoder.__init__
GridInit ==
    /\ hist_onset = Zeros(history_slots)
    /\ hist_hold = Zeros(history_slots)
    /\ hist_conf = [i \in 0..(history_slots - 1) |-> Frac(0, 1)]
    /\ hist_start_time = None
    /\ grid_call = None
    /\ grid_count = 0

GridAddEvent ==
    /\ grid_count < MaxGridEvents
    /\ \E ev \in GridEvents, slot_ms \in GridSlotMs, hist_start \in GridStarts :
         LET event == [t_server_ms |-> hist_start + ev.t_rel,
                       dur_ms |-> ev.dur_ms, conf |-> ev.conf]
             g == grid_add_event(Grid, event, slot_ms, hist_start)
         IN  /\ hist_onset' = g.hist_onset
             /\ hist_hold' = g.hist_hold
             /\ hist_conf' = g.hist_conf
             /\ hist_start_time' = g.hist_start_time
             /\ grid_call' = Some([event |-> event, slot_ms |-> slot_ms,
                                   hist_start |-> hist_start])
    /\ grid_count' = grid_count + 1
    /\ UNCHANGED exceptGrid

GridNext == GridAddEvent

---------------------------------------------------------------------------
(* SlotPriorModel and BootstrapPhrasePredictor (slot_prior_model.py) *)

\* a phrase is 4 beats of 32 slots
PhraseSlots == 128

MaxBatch == 2

\* a list of n values with 1 at the (0-based) positions in S and 0 elsewhere
OnsetsAt(S, n) == [i \in 1..n |-> IF (i - 1) \in S THEN 1 ELSE 0]

\* a list of n durations: d[i] at the (0-based) positions i of d, 0 elsewhere
DursAt(d, n) == [i \in 1..n |-> IF (i - 1) \in DOMAIN d THEN d[i - 1] ELSE 0]

\* The patterns update_from_patterns is called with: onsets at slots 0, 5
\* and 10; a 40-entry pattern with onsets at 0, 5, 10, 16 and 33; one of 16
\* entries.
PriorPatterns == {OnsetsAt({0, 5, 10}, 32), OnsetsAt({0, 5, 10, 16, 33}, 40),
                  OnsetsAt({0, 3}, 16)}

\* All lists of at most MaxBatch patterns.
PriorBatches ==
    UNION {[1..n -> PriorPatterns] : n \in 0..MaxBatch}

\* The durations arguments: None, and lists of duration arrays.
PriorDurations ==
    LET a == DursAt(0 :> 2 @@ 5 :> 1 @@ 10 :> 3, 32)
        b == DursAt(0 :> 5 @@ 5 :> 2 @@ 16 :> 1 @@ 20 :> 4, 32)
        c == DursAt(0 :> 9, 16)
    IN  {None, Some(<<>>), Some(<<a>>), Some(<<a, b>>), Some(<<c, a>>)}

\* int(np.median(s)) of a non-empty list of positive integers
int_median(s) ==
    LET sorted == SortSeq(s, LAMBDA a, b : a < b)
        n == Len(s)
    IN  IF n % 2 = 1 THEN sorted[(n + 1) \div 2]
        ELSE (sorted[n \div 2] + sorted[n \div 2 + 1]) \div 2

\* update_from_patterns that adds the batch to the counts it already has.
update_from_patterns_Running(model, patterns, durations) ==
    IF patterns = <<>> THEN model
    ELSE LET old == IF model.p_onset = None
                    THEN [i \in 0..(slots_per_beat - 1) |-> 0]
                    ELSE [i \in 0..(slots_per_beat - 1) |-> model.p_onset[1][i].num]
             total == model.sample_count + Len(patterns)
             used == {k \in 1..Len(patterns) : Len(patterns[k]) >= slots_per_beat}
             p == [i \in 0..(slots_per_beat - 1) |->
                     Frac(old[i] + Cardinality({k \in used : patterns[k][i + 1] > 0}),
                          Max(1, total))]
         IN  [p_onset |-> Some(p),
              median_dur_slots |->
                  IF model.median_dur_slots = None
                  THEN Some([i \in 0..(slots_per_beat - 1) |-> 1])
                  ELSE model.median_dur_slots,
              confidence |-> Some(p),
              sample_count |-> total]

\* update_from_patterns that keeps the onset counts undivided.
update_from_patterns_Counts(model, patterns, durations) ==
    IF patterns = <<>> THEN model
    ELSE LET p == [i \in 0..(slots_per_beat - 1) |->
                     Frac(Cardinality({k \in 1..Len(patterns) :
                                          /\ Len(patterns[k]) >= slots_per_beat
                                          /\ patterns[k][i + 1] > 0}), 1)]
         IN  [p_onset |-> Some(p),
              median_dur_slots |-> Some([i \in 0..(slots_per_beat - 1) |-> 1]),
              confidence |-> Some(p),
              sample_count |-> Len(patterns)]

\* update_from_patterns that counts only the patterns of 32 slots or more.
update_from_patterns_LongOnly(model, patterns, durations) ==
    LET long == SelectSeq(patterns, LAMBDA q : Len(q) >= slots_per_beat)
        p == [i \in 0..(slots_per_beat - 1) |->
                 Frac(Cardinality({k \in 1..Len(long) : long[k][i + 1] > 0}),
                      Max(1, Len(long)))]
    IN  IF long = <<>> THEN model
        ELSE [p_onset |-> Some(p),
              median_dur_slots |-> Some([i \in 0..(slots_per_beat - 1) |-> 1]),
              confidence |-> Some(p),
              sample_count |-> Len(long)]

\* SlotPriorModel.update_from_patterns: the model after the call.  The
\* durations argument is None or Some(list).
update_from_patterns(model, patterns, durations) ==
    IF patterns = <<>> THEN model
    ELSE LET N == Len(patterns)
             used == {k \in 1..N : Len(patterns[k]) >= slots_per_beat}
             count(i) == Cardinality({k \in used : patterns[k][i + 1] > 0})
             timed == IF durations = None \/ durations = Some(<<>>) THEN {}
                      ELSE {k \in used : /\ k <= Len(durations[1])
                                         /\ Len(durations[1][k]) >= slots_per_beat}
             slot_durations(j) ==
                 LET d == [k \in 1..N |-> IF k \in timed THEN durations[1][k][j + 1]
                                          ELSE 0]
                 IN  SelectSeq(d, LAMBDA x : x > 0)
             p == [i \in 0..(slots_per_beat - 1) |-> Frac(count(i), Max(1, N))]
         IN  [p_onset |-> Some(p),
              median_dur_slots |->
                  Some([i \in 0..(slots_per_beat - 1) |->
                          IF slot_durations(i) # <<>>
                          THEN int_median(slot_durations(i)) ELSE 1]),
              confidence |-> Some(p),
              sample_count |-> N]

\* SlotPriorModel.is_ready
is_ready(model) == model.p_onset # None /\ model.sample_count > 0

\* SlotPriorModel.get_prior: (onset probability, median duration, confidence)
get_prior(model, slot_index) ==
    IF ~is_ready(model) THEN <<Frac(0, 1), 1, Frac(0, 1)>>
    ELSE LET idx == slot_index % slots_per_beat
         IN  <<model.p_onset[1][idx], model.median_dur_slots[1][idx],
               model.confidence[1][idx]>>

\* AboveThreshold with >= for >.
AboveThreshold_AtLeast(p) == 2 * p.num >= p.den

\* p > 0.5 for a fraction p: the threshold of both predictors
AboveThreshold(p) == 2 * p.num > p.den

\* BootstrapPhrasePredictor.predict_phrase: (onset, dur_slots, confidence)
boot_predict_phrase(model) ==
    IF ~is_ready(model)
    THEN [onset |-> Zeros(PhraseSlots), dur_slots |-> Zeros(PhraseSlots),
          confidence |-> [i \in 0..(PhraseSlots - 1) |-> Frac(0, 1)]]
    ELSE LET prior(i) == get_prior(model, i % slots_per_beat)
         IN  [onset |-> [i \in 0..(PhraseSlots - 1) |->
                            IF AboveThreshold(prior(i)[1]) THEN 1 ELSE 0],
              dur_slots |-> [i \in 0..(PhraseSlots - 1) |->
                                IF AboveThreshold(prior(i)[1])
                                THEN Max(1, prior(i)[2]) ELSE 0],
              confidence |-> [i \in 0..(PhraseSlots - 1) |-> prior(i)[3]]]

PriorModel == [p_onset |-> p_onset, median_dur_slots |-> median_dur_slots,
               confidence |-> confidence, sample_count |-> sample_count]

\* SlotPriorModel.__init__
FreshModel == [p_onset |-> None, median_dur_slots |-> None,
               confidence |-> None, sample_count |-> 0]

PriorInit ==
    /\ p_onset = FreshModel.p_onset
    /\ median_dur_slots = FreshModel.median_dur_slots
    /\ confidence = FreshModel.confidence
    /\ sample_count = FreshModel.sample_count
    /\ prior_call = None
    /\ boot_ret = None

UpdateFromPatternsIn(batches, durs) ==
    /\ \E patterns \in batches, durations \in durs :
         LET m == update_from_patterns(PriorModel, patterns, durations)
         IN  /\ p_onset' = m.p_onset
             /\ median_dur_slots' = m.median_dur_slots
             /\ confidence' = m.confidence
             /\ sample_count' = m.sample_count
             /\ prior_call' = Some([patterns |-> patterns, durations |-> durations])
    /\ boot_ret' = None
    /\ UNCHANGED exceptPrior

UpdateFromPatterns == UpdateFromPatternsIn(PriorBatches, PriorDurations)

BootPredictPhrase ==
    /\ boot_ret' = Some(boot_predict_phrase(PriorModel))
    /\ UNCHANGED <<p_onset, median_dur_slots, confidence, sample_count, prior_call>>
    /\ UNCHANGED exceptPrior

PriorNext == UpdateFromPatterns \/ BootPredictPhrase

MaxRecords == 3

\* A database record: its pattern and its durations, each None when the
\* record has no such field.
DbRecord(pattern, durations) == [pattern |-> pattern, durations |-> durations]

\* The records update_from_db_records is called with: pattern and durations
\* of 32 slots, a pattern alone, durations alone, both of 16 slots, both of
\* 40 slots.
DbRecords == {
    DbRecord(Some(OnsetsAt({0, 5, 10}, 32)),
             Some(DursAt(0 :> 2 @@ 5 :> 1 @@ 10 :> 3, 32))),
    DbRecord(Some(OnsetsAt({0, 16}, 32)), None),
    DbRecord(None, Some(DursAt(0 :> 5 @@ 16 :> 1, 32))),
    DbRecord(Some(OnsetsAt({0, 3}, 16)), Some(DursAt(0 :> 9 @@ 3 :> 4, 16))),
    DbRecord(Some(OnsetsAt({0, 5, 33}, 40)), Some(DursAt(0 :> 7 @@ 33 :> 2, 40))) }

\* l * n for a list l
RECURSIVE Repeat(_, _)
Repeat(l, n) == IF n <= 0 THEN <<>> ELSE l \o Repeat(l, n - 1)

\* lines 99-104 and 114-118: a field made 32 slots long
first_32(l) ==
    IF Len(l) >= slots_per_beat THEN SubSeq(l, 1, slots_per_beat)
    ELSE SubSeq(Repeat(l, (slots_per_beat \div Len(l)) + 1), 1, slots_per_beat)

\* update_from_db_records lines 86-118: the patterns and durations lists
\* after the loop over the records, from the i-th record on
RECURSIVE ExtractRecords(_, _, _)
ExtractRecords(records, i, lists) ==
    IF i > Len(records) THEN lists
    ELSE ExtractRecords(records, i + 1,
             [patterns |->
                 IF records[i].pattern # None /\ records[i].pattern[1] # <<>>
                 THEN Append(lists.patterns, first_32(records[i].pattern[1]))
                 ELSE lists.patterns,
              durations |->
                 IF records[i].durations # None /\ records[i].durations[1] # <<>>
                 THEN Append(lists.durations, first_32(records[i].durations[1]))
                 ELSE lists.durations])

\* SlotPriorModel.update_from_db_records: the update_from_patterns call made
\* (None when there is none) and the model after it
update_from_db_records(model, records) ==
    Only({IF lists.patterns # <<>>
          THEN Only({[call |-> Some([patterns |-> lists.patterns,
                                     durations |-> durations,
                                     records |-> records]),
                      model |-> update_from_patterns(model, lists.patterns,
                                                     durations)] :
                        durations \in {IF lists.durations # <<>>
                                       THEN Some(lists.durations) ELSE None}})
          ELSE [call |-> None, model |-> model] :
             lists \in {ExtractRecords(records, 1,
                                       [patterns |-> <<>>, durations |-> <<>>])}})

UpdateFromDbRecords ==
    /\ \E records \in UNION {[1..n -> DbRecords] : n \in 0..MaxRecords} :
       \E r \in {update_from_db_records(PriorModel, records)} :
         /\ p_onset' = r.model.p_onset
         /\ median_dur_slots' = r.model.median_dur_slots
         /\ confidence' = r.model.confidence
         /\ sample_count' = r.model.sample_count
         /\ prior_call' = IF r.call # None THEN r.call ELSE prior_call
    /\ boot_ret' = None
    /\ UNCHANGED exceptPrior

RecordsNext == UpdateFromDbRecords \/ BootPredictPhrase

---------------------------------------------------------------------------
(* DeterministicPredictor *)

\* line 421: the last 100 durations of a slot position are kept
MaxDurSamples == 100

\* lines 409-414: 1 + the holds that follow slot i without a gap, within 31
hold_run(hold, i) ==
    LET lim == Min(i + 32, history_slots)
        stops == {j \in (i + 1)..(lim - 1) : hold[j] = 0}
    IN  (IF stops = {} THEN lim ELSE CHOOSE j \in stops : \A x \in stops : j <= x) - i

\* DeterministicPredictor.update_from_history: dur_patterns after the call
update_from_history(dp, onset, hold) ==
    LET found(sp) ==
            LET idx == [k \in 1..history_beats |-> sp + 32 * (k - 1)]
                hit == SelectSeq(idx, LAMBDA i : onset[i] = 1)
            IN  [k \in 1..Len(hit) |-> hold_run(hold, hit[k])]
        keys == DOMAIN dp \cup {sp \in 0..31 : found(sp) # <<>>}
    IN  [sp \in keys |->
            LET all == (IF sp \in DOMAIN dp THEN dp[sp] ELSE <<>>) \o found(sp)
            IN  IF Len(all) > MaxDurSamples
                THEN SubSeq(all, Len(all) - MaxDurSamples + 1, Len(all))
                ELSE all]

\* DeterministicPredictor.predict: pattern_ema after the call and the lists
\* returned.  alpha = 0.1: the average is 0.9 * old + 0.1 * hist_onset, kept
\* as numerators over a common power of ten.
predictor_predict(ema0, dp, onset) ==
    LET averaged == IF ema0 = None THEN [num |-> onset, den |-> 1]
                    ELSE [num |-> [i \in DOMAIN onset |->
                                      9 * ema0[1].num[i] + ema0[1].den * onset[i]],
                          den |-> 10 * ema0[1].den]
        on(ema, i) == AboveThreshold(Frac(ema.num[history_slots - 32 + (i % 32)],
                                          ema.den))
        dur(i) == IF (i % 32) \in DOMAIN dp /\ dp[i % 32] # <<>>
                  THEN int_median(dp[i % 32]) ELSE 1
        predicted(ema, onsets) ==
            [pattern_ema |-> Some(ema),
             onset |-> [i \in 0..(PhraseSlots - 1) |-> IF i \in onsets THEN 1 ELSE 0],
             dur_slots |-> [i \in 0..(PhraseSlots - 1) |->
                               IF i \in onsets THEN dur(i) ELSE 0]]
    IN  Only({Only({predicted(ema, onsets) :
                       onsets \in {{i \in 0..(PhraseSlots - 1) : on(ema, i)}}}) :
                 ema \in {averaged}})

---------------------------------------------------------------------------
(* PredictionEngine *)

MaxPredicts == 2

\* PredictionMode
Modes == {"bootstrap", "realtime", "deterministic", "tcn", "gru"}

PulseEvent(dev, src, t, dur) ==
    [device_id |-> dev, source_id |-> src, t_device_ms |-> t, dur_ms |-> dur]

\* A pulse and the server time at which process_pulse is called with it.
Arriving(pulse, at) == [pulse |-> pulse, server_time_ms |-> at]

\* The pulses process_pulse is called with: each device sends its pulses in
\* the order listed, the two devices in any interleaving.  The clocks are
\* not synchronised and d2 has two sources, so that timestamps arrive out
\* of order.
EngineStreams ==
    [d1 |-> << Arriving(PulseEvent("d1", "", 1000 * US, 50 * US), 1010 * US),
               Arriving(PulseEvent("d1", "mic", 1100 * US, 80 * US), 1110 * US) >>,
     d2 |-> << Arriving(PulseEvent("d2", "", 970 * US, 50 * US), 1020 * US),
               Arriving(PulseEvent("d2", "mic", 1035 * US, 40 * US), 1120 * US),
               Arriving(PulseEvent("d2", "", 975 * US, 50 * US), 1130 * US),
               Arriving(PulseEvent("d2", "mic", 1040 * US, 40 * US), 1140 * US) >>]

\* The server times predict_phrase is called with.
EngineNow == {1200 * US, 1700 * US}

\* The bpm arguments of predict_phrase: None, 90 bpm.
BpmArgs == {None, Some(90000)}

\* The patterns and durations update_from_patterns is called with while the
\* engine runs.
EngineBatches ==
    {<<OnsetsAt({0, 5, 10}, 32), OnsetsAt({0, 5, 10, 16, 33}, 40)>>}

EngineDurations == {None, Some(<<DursAt(0 :> 2 @@ 5 :> 1 @@ 10 :> 3, 32)>>)}

\* _apply_constraints lines 634-647: the onsets kept.  Slots are examined in
\* increasing order and a kept onset writes its hold forwards, so hold[i] > 0
\* exactly when i lies before hold_end, the end of the last hold written.
\* todo holds the onsets not yet examined.
RECURSIVE ConstraintScan(_, _, _, _)
ConstraintScan(dur_slots, todo, hold_end, kept) ==
    IF todo = {} THEN kept
    ELSE LET i == CHOOSE x \in todo : \A y \in todo : x <= y
         IN  IF i < hold_end
             THEN ConstraintScan(dur_slots, todo \ {i}, hold_end, kept)
             ELSE ConstraintScan(dur_slots, todo \ {i},
                                 Min(i + Max(1, dur_slots[i]), PhraseSlots),
                                 kept \cup {i})

\* _apply_constraints that drops nothing.
apply_constraints_KeepAll(onset, dur_slots) ==
    [onset |-> onset, dur_slots |-> dur_slots]

\* PredictionEngine._apply_constraints
apply_constraints(onset, dur_slots) ==
    LET onsets == {i \in 0..(PhraseSlots - 1) : 2 * onset[i] > 1}
        kept == ConstraintScan(dur_slots, onsets, 0, {})
    IN  [onset |-> [i \in 0..(PhraseSlots - 1) |->
                       IF i \in onsets \ kept THEN 0 ELSE onset[i]],
         dur_slots |-> [i \in 0..(PhraseSlots - 1) |->
                           IF i \in onsets \ kept THEN 0 ELSE dur_slots[i]]]

\* PredictionEngine._get_history_start
get_history_start(tr, t_now_ms) ==
    IF tr.t_last_beat = None
    THEN t_now_ms - history_beats * SixtyThousandOver(default_bpm)
    ELSE tr.t_last_beat[1] - history_beats * tr.beat_ms

\* process_pulse that passes the last canonical event finalized by the call,
\* not the first, to the tempo tracker, the grid and the predictor.
process_pulse_TracksLast(eng, pulse, server_time_ms) ==
    LET server_event(conv) ==
            ServerEvent(conv.ret, pulse.dur_ms, pulse.device_id, pulse.source_id)
        fused(conv, f) ==
            [eng EXCEPT !.clock = conv.st,
                        !.clusters = f.clusters,
                        !.canonical_events = f.canonical_events,
                        !.last_update_time = Some(server_time_ms)]
        encoded(conv, f, c, tr, slot_ms, hist_start, g) ==
            [ret |-> f.ret, server_event |-> server_event(conv),
             tempo_call |-> Some([t |-> c.t_server_ms,
                                  k |-> tr.k, err |-> tr.err]),
             grid_call |-> Some([event |-> c, slot_ms |-> slot_ms,
                                 hist_start |-> hist_start]),
             eng |-> [fused(conv, f) EXCEPT
                        !.tempo = [bpm |-> tr.bpm, beat_ms |-> tr.beat_ms,
                                   t_last_beat |-> tr.t_last_beat],
                        !.grid = g,
                        !.dur_patterns =
                            update_from_history(eng.dur_patterns,
                                                g.hist_onset, g.hist_hold)]]
        tracked(conv, f, c, tr) ==
            Only({encoded(conv, f, c, tr, slot_ms, hist_start,
                          grid_add_event(eng.grid, c, slot_ms, hist_start)) :
                     slot_ms \in {get_slot_ms(tr)},
                     hist_start \in {get_history_start(tr, server_time_ms)}})
        added(conv, f) ==
            IF f.ret # None
            THEN Only({tracked(conv, f, c, update(eng.tempo, c.t_server_ms)) :
                          c \in {f.canonical_events[Len(f.canonical_events)]}})
            ELSE [ret |-> None, server_event |-> server_event(conv),
                  tempo_call |-> None, grid_call |-> None,
                  eng |-> fused(conv, f)]
        converted(conv) ==
            Only({added(conv, f) :
                     f \in {add_event(eng.clusters, eng.canonical_events,
                                      server_event(conv))}})
    IN  Only({converted(conv) :
                 conv \in {convert_to_server_time(eng.clock, pulse.device_id,
                                                  pulse.t_device_ms)}})

\* PredictionEngine.process_pulse (lines 480-512): the engine after the call,
\* the value returned, and the calls made on the way
process_pulse(eng, pulse, server_time_ms) ==
    LET server_event(conv) ==
            ServerEvent(conv.ret, pulse.dur_ms, pulse.device_id, pulse.source_id)
        fused(conv, f) ==
            [eng EXCEPT !.clock = conv.st,
                        !.clusters = f.clusters,
                        !.canonical_events = f.canonical_events,
                        !.last_update_time = Some(server_time_ms)]
        \* lines 497-510, the canonical event being f.ret[1]
        encoded(conv, f, tr, slot_ms, hist_start, g) ==
            [ret |-> f.ret, server_event |-> server_event(conv),
             tempo_call |-> Some([t |-> f.ret[1].t_server_ms,
                                  k |-> tr.k, err |-> tr.err]),
             grid_call |-> Some([event |-> f.ret[1], slot_ms |-> slot_ms,
                                 hist_start |-> hist_start]),
             eng |-> [fused(conv, f) EXCEPT
                        !.tempo = [bpm |-> tr.bpm, beat_ms |-> tr.beat_ms,
                                   t_last_beat |-> tr.t_last_beat],
                        !.grid = g,
                        !.dur_patterns =
                            update_from_history(eng.dur_patterns,
                                                g.hist_onset, g.hist_hold)]]
        tracked(conv, f, tr) ==
            Only({encoded(conv, f, tr, slot_ms, hist_start,
                          grid_add_event(eng.grid, f.ret[1], slot_ms, hist_start)) :
                     slot_ms \in {get_slot_ms(tr)},
                     hist_start \in {get_history_start(tr, server_time_ms)}})
        added(conv, f) ==
            IF f.ret # None
            THEN Only({tracked(conv, f, tr) :
                          tr \in {update(eng.tempo, f.ret[1].t_server_ms)}})
            ELSE [ret |-> None, server_event |-> server_event(conv),
                  tempo_call |-> None, grid_call |-> None,
                  eng |-> fused(conv, f)]
        converted(conv) ==
            Only({added(conv, f) :
                     f \in {add_event(eng.clusters, eng.canonical_events,
                                      server_event(conv))}})
    IN  Only({converted(conv) :
                 conv \in {convert_to_server_time(eng.clock, pulse.device_id,
                                                  pulse.t_device_ms)}})

PhraseOutput(start, bpm_, slot_ms, onset, dur_slots, conf) ==
    [phrase_start_server_ms |-> start, bpm |-> bpm_, slot_ms |-> slot_ms,
     slots_per_beat |-> 32, phrase_beats |-> 4,
     onset |-> onset, dur_slots |-> dur_slots, confidence |-> conf]

\* _predict_bootstrap that starts the phrase half a beat from now and
\* follows the tracker whatever bpm is given.
predict_bootstrap_HalfBeat(eng, model, server_time_ms, bpm_arg) ==
    PhraseOutput(server_time_ms + RoundDiv(eng.tempo.beat_ms, 2), eng.tempo.bpm,
                 Frac(eng.tempo.beat_ms, 32), boot_predict_phrase(model).onset,
                 boot_predict_phrase(model).dur_slots,
                 boot_predict_phrase(model).confidence)

\* PredictionEngine._predict_bootstrap, the bootstrap predictor being set
predict_bootstrap(eng, model, server_time_ms, bpm_arg) ==
    LET bpm_ == IF bpm_arg # None THEN bpm_arg[1]
                ELSE IF eng.tempo.bpm # 0 THEN eng.tempo.bpm ELSE default_bpm
        beat == SixtyThousandOver(bpm_)
        r == boot_predict_phrase(model)
        half == server_time_ms + RoundDiv(beat, 2)
        beats_from_now == CeilDiv(half - server_time_ms, beat)
    IN  PhraseOutput(server_time_ms + beats_from_now * beat, bpm_,
                     Frac(beat, 32), r.onset, r.dur_slots, r.confidence)

\* PredictionEngine._predict_realtime: the value returned, the predictor's
\* pattern_ema after the call, and whether get_next_phrase_start was called
predict_realtime(eng, server_time_ms) ==
    IF eng.tempo.t_last_beat = None
    THEN [ret |-> None, pattern_ema |-> eng.pattern_ema, phrase_start |-> None]
    ELSE LET conf == [i \in 0..(PhraseSlots - 1) |->
                         eng.grid.hist_conf[history_slots - 32 + (i % 32)]]
             output(phrase_start, pr, kept) ==
                 [ret |-> Some(PhraseOutput(phrase_start, eng.tempo.bpm,
                                            get_slot_ms(eng.tempo), kept.onset,
                                            kept.dur_slots, conf)),
                  pattern_ema |-> pr.pattern_ema,
                  phrase_start |-> Some(phrase_start)]
             constrained(phrase_start, pr) ==
                 Only({output(phrase_start, pr, kept) :
                          kept \in {apply_constraints(pr.onset, pr.dur_slots)}})
         IN  Only({constrained(phrase_start, pr) :
                      phrase_start \in {get_next_phrase_start(eng.tempo, server_time_ms)},
                      pr \in {predictor_predict(eng.pattern_ema, eng.dur_patterns,
                                                eng.grid.hist_onset)}})

\* predict_phrase that asks the slot priors whenever the mode is bootstrap.
predict_phrase_ModeOnly(eng, model, server_time_ms, bpm_arg) ==
    IF eng.mode = "bootstrap"
    THEN [ret |-> Some(predict_bootstrap(eng, model, server_time_ms, bpm_arg)),
          pattern_ema |-> eng.pattern_ema, phrase_start |-> None]
    ELSE predict_realtime(eng, server_time_ms)

\* PredictionEngine.predict_phrase (lines 538-558)
predict_phrase(eng, model, server_time_ms, bpm_arg) ==
    IF eng.mode = "bootstrap" /\ eng.bootstrap_predictor
    THEN [ret |-> Some(predict_bootstrap(eng, model, server_time_ms, bpm_arg)),
          pattern_ema |-> eng.pattern_ema, phrase_start |-> None]
    ELSE predict_realtime(eng, server_time_ms)

\* `x if x else None`: None and 0.0 both give None
OrNone(x) == IF x = None \/ x = Some(0) THEN None ELSE x

\* get_state that asks the predictor for a prediction on the way.
get_state_Predicting(eng) ==
    [ret |-> [mode |-> eng.mode],
     eng |-> [eng EXCEPT !.pattern_ema =
                 predictor_predict(eng.pattern_ema, eng.dur_patterns,
                                   eng.grid.hist_onset).pattern_ema]]

\* PredictionEngine.get_state: the snapshot returned and the engine after
\* the call
get_state(eng) ==
    [ret |->
        [mode |-> eng.mode,
         bpm |-> OrNone(Some(eng.tempo.bpm)),
         beat_ms |-> eng.tempo.beat_ms,
         t_last_beat |-> OrNone(eng.tempo.t_last_beat),
         slot_ms |-> get_slot_ms(eng.tempo),
         num_canonical_events |-> Len(eng.canonical_events),
         num_devices |-> Cardinality(DOMAIN eng.clock.offsets),
         last_update_time |-> OrNone(eng.last_update_time),
         clock_sync |->
            [d \in DOMAIN eng.clock.offsets |->
                [offset_ms |-> eng.clock.offsets[d],
                 drift |-> IF d \in DOMAIN eng.clock.drifts
                           THEN eng.clock.drifts[d] ELSE DriftOne,
                 history_count |-> IF d \in DOMAIN eng.clock.offset_history
                                   THEN Len(eng.clock.offset_history[d]) ELSE 0]],
         event_fusion |->
            [window_ms |-> window_ms,
             active_clusters |-> Len(eng.clusters),
             recent_canonical_events |->
                SubSeq(eng.canonical_events,
                       Max(1, Len(eng.canonical_events) - 19),
                       Len(eng.canonical_events))],
         tempo_tracker |-> [phase_gain |-> Frac(1, PhaseGainDen),
                            tempo_gain |-> Frac(1, TempoGainDen)],
         grid_encoder |->
            [history_beats |-> history_beats,
             history_slots |-> history_slots,
             hist_start_time |-> OrNone(eng.grid.hist_start_time),
             hist_onset |-> eng.grid.hist_onset,
             hist_hold |-> eng.grid.hist_hold,
             hist_conf |-> eng.grid.hist_conf],
         predictor |->
            [type |-> "deterministic",
             threshold |-> Frac(1, 2),
             pattern_ema_length |-> IF eng.pattern_ema = None THEN 0
                                    ELSE history_slots,
             duration_patterns_count |-> Cardinality(DOMAIN eng.dur_patterns)]],
     eng |-> eng]

Engine == [clock |-> ClockState, clusters |-> clusters,
           canonical_events |-> canonical_events, tempo |-> Tracker,
           grid |-> Grid, pattern_ema |-> pattern_ema,
           dur_patterns |-> dur_patterns, mode |-> mode,
           bootstrap_predictor |-> bootstrap_predictor,
           last_update_time |-> last_update_time]

\* The engine's state becomes e.
SetEngine(e) ==
    /\ offsets' = e.clock.offsets
    /\ drifts' = e.clock.drifts
    /\ offset_history' = e.clock.offset_history
    /\ clusters' = e.clusters
    /\ canonical_events' = e.canonical_events
    /\ bpm' = e.tempo.bpm
    /\ beat_ms' = e.tempo.beat_ms
    /\ t_last_beat' = e.tempo.t_last_beat
    /\ hist_onset' = e.grid.hist_onset
    /\ hist_hold' = e.grid.hist_hold
    /\ hist_conf' = e.grid.hist_conf
    /\ hist_start_time' = e.grid.hist_start_time
    /\ pattern_ema' = e.pattern_ema
    /\ dur_patterns' = e.dur_patterns
    /\ mode' = e.mode
    /\ bootstrap_predictor' = e.bootstrap_predictor
    /\ last_update_time' = e.last_update_time

\* The record of an engine method call.
Called(op, args) == [op |-> op, args |-> args]

NumThreads == 2

MaxThreadCalls == 4

Threads == 1..NumThreads

\* A thread that is in no call.
NoCall == [op |-> "none", args |-> <<>>, canonical |-> None, ret |-> None]

\* PredictionEngine.__init__ with the given mode, no thread calling yet,
\* and set_bootstrap_predictor when attached
EngineInitAttached(m, attached) ==
    /\ pattern_ema = None
    /\ dur_patterns = EmptyDict
    /\ mode = m
    /\ bootstrap_predictor = attached
    /\ last_update_time = None
    /\ engine_call = Called("__init__", <<m>>)
    /\ engine_ret = None
    /\ predict_count = 0
    /\ pulses_sent = [d \in DOMAIN EngineStreams |-> 0]
    /\ lock = None
    /\ thread_pc = [t \in Threads |-> "idle"]
    /\ thread_call = [t \in Threads |-> NoCall]
    /\ calls_started = 0

EngineInitWith(m) == EngineInitAttached(m, FALSE)

EngineInit == EngineInitWith("bootstrap")

SetBootstrapPredictor ==
    /\ ~bootstrap_predictor
    /\ bootstrap_predictor' = TRUE
    /\ engine_call' = Called("set_bootstrap_predictor", <<>>)
    /\ engine_ret' = None
    /\ UNCHANGED <<mode, last_update_time, predict_count, pulses_sent>>
    /\ UNCHANGED predictorVars
    /\ UNCHANGED <<fusionVars, clockVars, tempoVars, gridVars>>
    /\ UNCHANGED exceptEngine

ProcessPulse ==
    /\ \E d \in DOMAIN EngineStreams :
         /\ pulses_sent[d] < Len(EngineStreams[d])
         /\ \E next \in {EngineStreams[d][pulses_sent[d] + 1]} :
            \E r \in {process_pulse(Engine, next.pulse, next.server_time_ms)} :
             /\ pulses_sent' = [pulses_sent EXCEPT ![d] = @ + 1]
             /\ SetEngine(r.eng)
             /\ engine_call' = Called("process_pulse",
                                      <<next.pulse, next.server_time_ms>>)
             /\ engine_ret' = r.ret
             /\ last_event' = Some(r.server_event)
             /\ add_ret' = r.ret
             /\ IF r.ret # None
                THEN /\ tempo_last' = r.tempo_call
                     /\ tempo_updates' = tempo_updates + 1
                     /\ grid_call' = r.grid_call
                     /\ grid_count' = grid_count + 1
                     /\ phrase_call' = None
                     /\ phrase_ret' = None
                ELSE UNCHANGED <<tempo_last, tempo_updates, grid_call,
                                 grid_count, phrase_call, phrase_ret>>
    /\ fusion_added' = fusion_added + 1
    /\ UNCHANGED <<last_ping, ping_count, conv_call, conv_ret, predict_count>>
    /\ UNCHANGED exceptEngine

PredictPhrase ==
    /\ predict_count < MaxPredicts
    /\ \E now \in EngineNow, bpm_arg \in BpmArgs :
         \E r \in {predict_phrase(Engine, PriorModel, now, bpm_arg)} :
             /\ pattern_ema' = r.pattern_ema
             /\ engine_call' = Called("predict_phrase", <<now, bpm_arg>>)
             /\ engine_ret' = r.ret
             /\ IF r.phrase_start # None
                THEN phrase_call' = Some(now) /\ phrase_ret' = r.phrase_start
                ELSE UNCHANGED <<phrase_call, phrase_ret>>
    /\ predict_count' = predict_count + 1
    /\ UNCHANGED <<dur_patterns, mode, bootstrap_predictor, last_update_time,
                   pulses_sent>>
    /\ UNCHANGED <<bpm, beat_ms, t_last_beat, tempo_last, tempo_updates>>
    /\ UNCHANGED <<fusionVars, clockVars, gridVars>>
    /\ UNCHANGED exceptEngine

GetState ==
    /\ \E r \in {get_state(Engine)} :
           /\ SetEngine(r.eng)
           /\ engine_ret' = Some(r.ret)
    /\ engine_call' = Called("get_state", <<>>)
    /\ UNCHANGED <<add_ret, last_event, fusion_added>>
    /\ UNCHANGED <<last_ping, ping_count, conv_call, conv_ret>>
    /\ UNCHANGED <<tempo_last, tempo_updates, phrase_call, phrase_ret>>
    /\ UNCHANGED <<grid_call, grid_count, predict_count, pulses_sent>>
    /\ UNCHANGED exceptEngine

\* prediction_api.py:184-189: in bootstrap mode the priors are updated from
\* the patterns of a request
EngineUpdateFromPatterns ==
    /\ mode = "bootstrap"
    /\ UpdateFromPatternsIn(EngineBatches, EngineDurations)

\* The slots and durations _apply_constraints is called with directly: the
\* first slots, where hold windows chain, and the last slot, where a hold is
\* clipped.
ConstraintSlots == {0, 1, 2, 3, PhraseSlots - 1}

ConstraintDurs == {0, 1, 3}

\* _apply_constraints called on lists of 128 entries.  The method reads no
\* state of the engine, so it is called on the engine as constructed.
ApplyConstraints ==
    /\ engine_call.op = "__init__"
    /\ \E S \in SUBSET ConstraintSlots, d \in [ConstraintSlots -> ConstraintDurs] :
         \E onset \in {[i \in 0..(PhraseSlots - 1) |-> IF i \in S THEN 1 ELSE 0]},
            dur_slots \in {[i \in 0..(PhraseSlots - 1) |->
                               IF i \in ConstraintSlots THEN d[i] ELSE 0]} :
             /\ engine_call' = Called("_apply_constraints", <<onset, dur_slots>>)
             /\ engine_ret' = Some(apply_constraints(onset, dur_slots))
    /\ UNCHANGED <<mode, bootstrap_predictor, last_update_time, predict_count,
                   pulses_sent>>
    /\ UNCHANGED <<predictorVars, fusionVars, clockVars, tempoVars, gridVars>>
    /\ UNCHANGED exceptEngine

ConstraintsNext == ApplyConstraints \/ ProcessPulse \/ PredictPhrase

EngineNext ==
    \/ SetBootstrapPredictor
    \/ ProcessPulse
    \/ PredictPhrase
    \/ GetState
    \/ EngineUpdateFromPatterns

---------------------------------------------------------------------------
(* PredictionEngine called from several threads.  A call of process_pulse,
   predict_phrase or get_state takes self.lock, runs its body one statement
   after the other and releases the lock on leaving the with block. *)

\* The positions of a thread inside a with self.lock block.
CriticalPcs == {"fuse", "tempo", "encode", "finish", "read", "release"}

\* Lock.acquire that succeeds whether or not the lock is held.
lock_free_Always(l) == TRUE

\* threading.Lock: acquire succeeds when no thread holds the lock
lock_free(l) == l = None

ThreadCall(op, args) == [NoCall EXCEPT !.op = op, !.args = args]

\* A thread calls one of the three methods and reaches `with self.lock`.
StartCall(t) ==
    /\ thread_pc[t] = "idle"
    /\ calls_started < MaxThreadCalls
    /\ calls_started' = calls_started + 1
    /\ thread_pc' = [thread_pc EXCEPT ![t] = "acquire"]
    /\ \/ \E d \in DOMAIN EngineStreams :
            /\ pulses_sent[d] < Len(EngineStreams[d])
            /\ pulses_sent' = [pulses_sent EXCEPT ![d] = @ + 1]
            /\ thread_call' =
                   [thread_call EXCEPT ![t] =
                       ThreadCall("process_pulse",
                                  EngineStreams[d][pulses_sent[d] + 1])]
       \/ /\ \E now \in EngineNow :
               thread_call' =
                   [thread_call EXCEPT ![t] = ThreadCall("predict_phrase", now)]
          /\ UNCHANGED pulses_sent
       \/ /\ thread_call' = [thread_call EXCEPT ![t] = ThreadCall("get_state", <<>>)]
          /\ UNCHANGED pulses_sent
    /\ UNCHANGED <<mode, bootstrap_predictor, last_update_time, engine_call,
                   engine_ret, predict_count, lock>>
    /\ UNCHANGED <<fusionVars, clockVars, tempoVars, gridVars, priorVars,
                   predictorVars, apiVars>>

\* with self.lock: (lines 480, 538, 653)
Acquire(t) ==
    /\ thread_pc[t] = "acquire"
    /\ lock_free(lock)
    /\ lock' = Some(t)
    /\ thread_pc' = [thread_pc EXCEPT ![t] =
                        IF thread_call[t].op = "process_pulse" THEN "fuse"
                        ELSE "read"]
    /\ UNCHANGED <<thread_call, calls_started>>
    /\ UNCHANGED <<fusionVars, clockVars, tempoVars, gridVars, priorVars,
                   predictorVars, engineVars, apiVars>>

\* process_pulse lines 481-495: clock sync, server event, event fusion
PulseFuse(t) ==
    /\ thread_pc[t] = "fuse"
    /\ \E pulse \in {thread_call[t].args.pulse} :
       \E conv \in {convert_to_server_time(ClockState, pulse.device_id,
                                           pulse.t_device_ms)} :
       \E ev \in {ServerEvent(conv.ret, pulse.dur_ms, pulse.device_id,
                              pulse.source_id)} :
       \E f \in {add_event(clusters, canonical_events, ev)} :
         /\ offsets' = conv.st.offsets
         /\ drifts' = conv.st.drifts
         /\ offset_history' = conv.st.offset_history
         /\ clusters' = f.clusters
         /\ canonical_events' = f.canonical_events
         /\ last_event' = Some(ev)
         /\ add_ret' = f.ret
         /\ fusion_added' = fusion_added + 1
         /\ thread_call' = [thread_call EXCEPT ![t].canonical = f.ret]
         /\ thread_pc' = [thread_pc EXCEPT ![t] =
                             IF f.ret # None THEN "tempo" ELSE "finish"]
    /\ UNCHANGED <<last_ping, ping_count, conv_call, conv_ret>>
    /\ UNCHANGED <<lock, calls_started>>
    /\ UNCHANGED <<tempoVars, gridVars, priorVars, predictorVars, engineVars,
                   apiVars>>

\* process_pulse line 499: the tempo tracker takes the canonical event
PulseTempo(t) ==
    /\ thread_pc[t] = "tempo"
    /\ \E r \in {update(Tracker, thread_call[t].canonical[1].t_server_ms)} :
         /\ bpm' = r.bpm
         /\ beat_ms' = r.beat_ms
         /\ t_last_beat' = r.t_last_beat
         /\ tempo_last' = Some([t |-> thread_call[t].canonical[1].t_server_ms,
                                k |-> r.k, err |-> r.err])
    /\ tempo_updates' = tempo_updates + 1
    /\ phrase_call' = None
    /\ phrase_ret' = None
    /\ thread_pc' = [thread_pc EXCEPT ![t] = "encode"]
    /\ UNCHANGED <<lock, thread_call, calls_started>>
    /\ UNCHANGED <<fusionVars, clockVars, gridVars, priorVars, predictorVars,
                   engineVars, apiVars>>

\* process_pulse lines 502-508: the grid encoder and the predictor's
\* duration patterns take the canonical event
PulseEncode(t) ==
    /\ thread_pc[t] = "encode"
    /\ \E slot_ms \in {get_slot_ms(Tracker)},
          hist_start \in {get_history_start(
                              Tracker, thread_call[t].args.server_time_ms)} :
       \E g \in {grid_add_event(Grid, thread_call[t].canonical[1], slot_ms,
                                hist_start)} :
         /\ hist_onset' = g.hist_onset
         /\ hist_hold' = g.hist_hold
         /\ hist_conf' = g.hist_conf
         /\ hist_start_time' = g.hist_start_time
         /\ grid_call' = Some([event |-> thread_call[t].canonical[1],
                               slot_ms |-> slot_ms, hist_start |-> hist_start])
         /\ dur_patterns' = update_from_history(dur_patterns, g.hist_onset,
                                                g.hist_hold)
    /\ grid_count' = grid_count + 1
    /\ thread_pc' = [thread_pc EXCEPT ![t] = "finish"]
    /\ UNCHANGED <<pattern_ema, lock, thread_call, calls_started>>
    /\ UNCHANGED <<fusionVars, clockVars, tempoVars, priorVars, engineVars,
                   apiVars>>

\* process_pulse lines 510-511: last_update_time, return, the lock released
PulseFinish(t) ==
    /\ thread_pc[t] = "finish"
    /\ last_update_time' = Some(thread_call[t].args.server_time_ms)
    /\ thread_call' = [thread_call EXCEPT ![t].ret = thread_call[t].canonical]
    /\ thread_pc' = [thread_pc EXCEPT ![t] = "idle"]
    /\ lock' = None
    /\ UNCHANGED <<mode, bootstrap_predictor, engine_call, engine_ret,
                   predict_count, pulses_sent, calls_started>>
    /\ UNCHANGED <<fusionVars, clockVars, tempoVars, gridVars, priorVars,
                   predictorVars, apiVars>>

\* The body of predict_phrase (lines 539-558)
ReadPhrase(t) ==
    /\ thread_pc[t] = "read"
    /\ thread_call[t].op = "predict_phrase"
    /\ \E eng \in {Engine} :
       \E r \in {predict_phrase(eng, PriorModel, thread_call[t].args, None)} :
         /\ pattern_ema' = r.pattern_ema
         /\ thread_call' = [thread_call EXCEPT ![t].ret = r.ret]
         /\ IF r.phrase_start # None
            THEN /\ phrase_call' = Some(thread_call[t].args)
                 /\ phrase_ret' = r.phrase_start
            ELSE UNCHANGED <<phrase_call, phrase_ret>>
    /\ predict_count' = predict_count + 1
    /\ thread_pc' = [thread_pc EXCEPT ![t] = "release"]
    /\ UNCHANGED <<dur_patterns, mode, bootstrap_predictor, last_update_time,
                   engine_call, engine_ret, pulses_sent, lock, calls_started>>
    /\ UNCHANGED <<bpm, beat_ms, t_last_beat, tempo_last, tempo_updates>>
    /\ UNCHANGED <<fusionVars, clockVars, gridVars, priorVars, apiVars>>

\* The body of get_state (lines 654-720)
ReadState(t) ==
    /\ thread_pc[t] = "read"
    /\ thread_call[t].op = "get_state"
    /\ \E r \in {get_state(Engine)} :
         /\ SetEngine(r.eng)
         /\ thread_call' = [thread_call EXCEPT ![t].ret = Some(r.ret)]
    /\ thread_pc' = [thread_pc EXCEPT ![t] = "release"]
    /\ UNCHANGED <<add_ret, last_event, fusion_added>>
    /\ UNCHANGED <<last_ping, ping_count, conv_call, conv_ret>>
    /\ UNCHANGED <<tempo_last, tempo_updates, phrase_call, phrase_ret>>
    /\ UNCHANGED <<grid_call, grid_count>>
    /\ UNCHANGED <<engine_call, engine_ret, predict_count, pulses_sent>>
    /\ UNCHANGED <<lock, calls_started, priorVars, apiVars>>

\* A reader returns: the with block is left and the lock released.
Release(t) ==
    /\ thread_pc[t] = "release"
    /\ thread_pc' = [thread_pc EXCEPT ![t] = "idle"]
    /\ lock' = None
    /\ UNCHANGED <<thread_call, calls_started>>
    /\ UNCHANGED <<fusionVars, clockVars, tempoVars, gridVars, priorVars,
                   predictorVars, engineVars, apiVars>>

\* The steps of a thread inside a call, once it waits for the lock or holds it
ThreadStep(t) ==
    \/ PulseFuse(t)
    \/ PulseTempo(t)
    \/ PulseEncode(t)
    \/ PulseFinish(t)
    \/ ReadPhrase(t)
    \/ ReadState(t)
    \/ Release(t)

ThreadNext == \E t \in Threads : StartCall(t) \/ Acquire(t) \/ ThreadStep(t)

---------------------------------------------------------------------------
(* PredictionAPI.  The database is the environment: an attached database
   answers every call, raises on every call, or answers every call but
   update_prediction; "absent" is database=None.  A helper returns the
   database calls it made and whether an exception left it. *)

Databases == {"ok", "raises", "update_raises", "absent"}

\* The database raises when op is called on it.
Raises(db, op) ==
    db = "raises" \/ (db = "update_raises" /\ op = "update_prediction")

\* The modes the API is constructed with.
ApiModes == {"bootstrap", "realtime"}

DbCall(op, arg, ret, raised) ==
    [op |-> op, arg |-> arg, ret |-> ret, raised |-> raised]

\* The id get_or_create_source answers with.
SourceId == 7

PredictRequest(dev, bpm_, patterns, durations, timestamps, pulse_durations) ==
    [device_id |-> dev, currentBPM |-> bpm_,
     recentPulsePatterns |-> patterns,
     recentPulseDurationsSlots |-> durations,
     recentPulseTimestamps |-> timestamps,
     recentPulseDurations |-> pulse_durations]

\* The requests handle_predict_phrase is called with: an empty one, one with
\* patterns and a bpm, one with pulse timestamps and one duration.
PredictRequests == {
    PredictRequest("d1", None, <<>>, <<>>, <<>>, <<>>),
    PredictRequest("d1", Some(90000),
                   <<OnsetsAt({0, 5, 10}, 32), OnsetsAt({0, 5, 10, 16, 33}, 40)>>,
                   <<DursAt(0 :> 2 @@ 5 :> 1 @@ 10 :> 3, 32)>>, <<>>, <<>>),
    PredictRequest("d3", None, <<>>, <<>>,
                   <<1500 * US, 1600 * US, 1480 * US>>, <<50 * US>>) }

\* dur_ms when a request names none (lines 88 and 197)
DefaultDurMs == 100 * US

\* _ingest_batched_data without its try/except.
ingest_batched_data_Unguarded(db, next_id, request) ==
    IF db = "absent"
    THEN [ret |-> None, log |-> <<>>, raised |-> FALSE, next_id |-> next_id]
    ELSE IF Raises(db, "get_or_create_source")
    THEN [ret |-> None,
          log |-> <<DbCall("get_or_create_source", request.device_id, None, TRUE)>>,
          raised |-> TRUE, next_id |-> next_id]
    ELSE IF Raises(db, "insert_prediction")
    THEN [ret |-> None,
          log |-> <<DbCall("get_or_create_source", request.device_id,
                           Some(SourceId), FALSE),
                    DbCall("insert_prediction", request.device_id, None, TRUE)>>,
          raised |-> TRUE, next_id |-> next_id]
    ELSE [ret |-> Some(next_id),
          log |-> <<DbCall("get_or_create_source", request.device_id,
                           Some(SourceId), FALSE),
                    DbCall("insert_prediction", request.device_id,
                           Some(next_id), FALSE)>>,
          raised |-> FALSE, next_id |-> next_id + 1]

\* PredictionAPI._ingest_batched_data: the record id returned (None when the
\* database is absent or a call raised), the database calls made
ingest_batched_data(db, next_id, request) ==
    IF db = "absent"
    THEN [ret |-> None, log |-> <<>>, raised |-> FALSE, next_id |-> next_id]
    ELSE IF Raises(db, "get_or_create_source")
    THEN [ret |-> None,
          log |-> <<DbCall("get_or_create_source", request.device_id, None, TRUE)>>,
          raised |-> FALSE, next_id |-> next_id]
    ELSE IF Raises(db, "insert_prediction")
    THEN [ret |-> None,
          log |-> <<DbCall("get_or_create_source", request.device_id,
                           Some(SourceId), FALSE),
                    DbCall("insert_prediction", request.device_id, None, TRUE)>>,
          raised |-> FALSE, next_id |-> next_id]
    ELSE [ret |-> Some(next_id),
          log |-> <<DbCall("get_or_create_source", request.device_id,
                           Some(SourceId), FALSE),
                    DbCall("insert_prediction", request.device_id,
                           Some(next_id), FALSE)>>,
          raised |-> FALSE, next_id |-> next_id + 1]

\* PredictionAPI._store_pulse_in_db: the database calls made; every
\* exception is caught inside
store_pulse_in_db(db, tr, pulse, canonical) ==
    IF db = "absent" THEN [log |-> <<>>, raised |-> FALSE]
    ELSE IF Raises(db, "get_or_create_source")
    THEN [log |-> <<DbCall("get_or_create_source", pulse.device_id, None, TRUE)>>,
          raised |-> FALSE]
    ELSE IF Raises(db, "insert_pulse_timestamps")
    THEN [log |-> <<DbCall("get_or_create_source", pulse.device_id,
                           Some(SourceId), FALSE),
                    DbCall("insert_pulse_timestamps", SourceId, None, TRUE)>>,
          raised |-> FALSE]
    ELSE [log |-> <<DbCall("get_or_create_source", pulse.device_id,
                           Some(SourceId), FALSE),
                    DbCall("insert_pulse_timestamps",
                           <<SourceId, IF tr.bpm # 0 THEN tr.bpm ELSE default_bpm,
                             canonical.dur_ms \div US>>, None, FALSE)>>,
          raised |-> FALSE]

\* The counters and last calls the model keeps of the engine's components.
Ghosts == [fusion_added |-> fusion_added, last_event |-> last_event,
           add_ret |-> add_ret, tempo_last |-> tempo_last,
           tempo_updates |-> tempo_updates, grid_call |-> grid_call,
           grid_count |-> grid_count, phrase_call |-> phrase_call,
           phrase_ret |-> phrase_ret]

\* The counters and last calls after a process_pulse call that gave r.
after_pulse(gh, r) ==
    IF r.ret # None
    THEN [gh EXCEPT !.fusion_added = @ + 1,
                    !.last_event = Some(r.server_event),
                    !.add_ret = r.ret,
                    !.tempo_last = r.tempo_call,
                    !.tempo_updates = @ + 1,
                    !.grid_call = r.grid_call,
                    !.grid_count = @ + 1,
                    !.phrase_call = None,
                    !.phrase_ret = None]
    ELSE [gh EXCEPT !.fusion_added = @ + 1,
                    !.last_event = Some(r.server_event),
                    !.add_ret = r.ret]

SetGhosts(gh) ==
    /\ fusion_added' = gh.fusion_added
    /\ last_event' = gh.last_event
    /\ add_ret' = gh.add_ret
    /\ tempo_last' = gh.tempo_last
    /\ tempo_updates' = gh.tempo_updates
    /\ grid_call' = gh.grid_call
    /\ grid_count' = gh.grid_count
    /\ phrase_call' = gh.phrase_call
    /\ phrase_ret' = gh.phrase_ret

ErrorResponse(message) == [status |-> "error", message |-> message]

\* PredictionAPI.handle_pulse: the response, the engine after the call and
\* the database calls made
handle_pulse(eng, gh, db, pulse, server_time_ms) ==
    Only({LET stored == IF db # "absent" /\ r.ret # None
                        THEN store_pulse_in_db(db, r.eng.tempo, pulse, r.ret[1])
                        ELSE [log |-> <<>>, raised |-> FALSE]
          IN  IF stored.raised
              THEN [response |-> ErrorResponse("exception"), eng |-> r.eng,
                    gh |-> after_pulse(gh, r), log |-> stored.log]
              ELSE [response |->
                        [status |-> "success",
                         server_time_ms |-> server_time_ms,
                         canonical_event |->
                             IF r.ret = None THEN None
                             ELSE Some([t_server_ms |-> r.ret[1].t_server_ms,
                                        dur_ms |-> r.ret[1].dur_ms,
                                        conf |-> r.ret[1].conf,
                                        spread_ms |-> r.ret[1].spread_ms])],
                    eng |-> r.eng, gh |-> after_pulse(gh, r),
                    log |-> stored.log] :
             r \in {process_pulse(eng, pulse, server_time_ms)}})

\* handle_predict_phrase lines 191-204: the pulses of the request processed
\* in order, from the i-th on
RECURSIVE ProcessTimestamps(_, _, _, _)
ProcessTimestamps(st, request, server_time_ms, i) ==
    IF i > Len(request.recentPulseTimestamps) THEN st
    ELSE Only({ProcessTimestamps([eng |-> r.eng, gh |-> after_pulse(st.gh, r)],
                                 request, server_time_ms, i + 1) :
                  r \in {process_pulse(
                             st.eng,
                             PulseEvent(request.device_id, "",
                                        request.recentPulseTimestamps[i],
                                        IF i <= Len(request.recentPulseDurations)
                                        THEN request.recentPulseDurations[i]
                                        ELSE DefaultDurMs),
                             server_time_ms)}})

\* PredictionAPI.handle_predict_phrase: the response, the engine and the slot
\* priors after the call, the database calls made
handle_predict_phrase(eng, gh, model, db, next_id, request, server_time_ms) ==
    LET \* step 4 and the response, the phrase being p[1]
        answered(ing, st, model2, p) ==
            [response |->
                 IF p.ret = None
                 THEN ErrorResponse("Not enough data for prediction")
                 ELSE [status |-> "success"] @@ p.ret[1],
             eng |-> [st.eng EXCEPT !.pattern_ema = p.pattern_ema],
             gh |-> IF p.phrase_start # None
                    THEN [st.gh EXCEPT !.phrase_call = Some(server_time_ms),
                                       !.phrase_ret = p.phrase_start]
                    ELSE st.gh,
             model |-> model2,
             log |-> IF p.ret # None /\ db # "absent" /\ ing.ret # None
                     THEN Append(ing.log,
                                 DbCall("update_prediction", ing.ret[1], None,
                                        Raises(db, "update_prediction")))
                     ELSE ing.log,
             next_id |-> ing.next_id]
        \* step 3
        predicted(ing, st, model2) ==
            Only({answered(ing, st, model2, p) :
                     p \in {predict_phrase(st.eng, model2, server_time_ms,
                                           request.currentBPM)}})
        \* step 2
        updated(ing) ==
            Only({predicted(ing, st, model2) :
                     st \in {IF eng.mode = "realtime"
                             THEN ProcessTimestamps([eng |-> eng, gh |-> gh],
                                                    request, server_time_ms, 1)
                             ELSE [eng |-> eng, gh |-> gh]},
                     model2 \in {IF /\ eng.mode = "bootstrap"
                                    /\ request.recentPulsePatterns # <<>>
                                 THEN update_from_patterns(
                                          model, request.recentPulsePatterns,
                                          IF request.recentPulseDurationsSlots # <<>>
                                          THEN Some(request.recentPulseDurationsSlots)
                                          ELSE None)
                                 ELSE model}})
    IN  \* step 1
        Only({IF ing.raised
              THEN [response |-> ErrorResponse("exception"), eng |-> eng,
                    gh |-> gh, model |-> model, log |-> ing.log,
                    next_id |-> ing.next_id]
              ELSE updated(ing) :
                 ing \in {ingest_batched_data(db, next_id, request)}})

\* PredictionAPI.__init__ with the given mode and database, the database
\* holding no records
ApiInitWith(m, db) ==
    /\ FusionInit /\ ClockInit /\ TempoInit /\ GridInit /\ PriorInit
    /\ EngineInitAttached(m, m = "bootstrap")
    /\ database = db
    /\ db_log = <<>>
    /\ db_next_id = 1
    /\ api_call = None
    /\ api_ret = None

\* No API around the engine.
NoApi ==
    /\ database = "absent"
    /\ db_log = <<>>
    /\ db_next_id = 1
    /\ api_call = None
    /\ api_ret = None

SetPriorModel(m) ==
    /\ p_onset' = m.p_onset
    /\ median_dur_slots' = m.median_dur_slots
    /\ confidence' = m.confidence
    /\ sample_count' = m.sample_count

HandlePulse ==
    /\ \E d \in DOMAIN EngineStreams :
         /\ pulses_sent[d] < Len(EngineStreams[d])
         /\ \E next \in {EngineStreams[d][pulses_sent[d] + 1]},
                  eng \in {Engine}, gh \in {Ghosts} :
            \E r \in {handle_pulse(eng, gh, database, next.pulse,
                                   next.server_time_ms)} :
             /\ pulses_sent' = [pulses_sent EXCEPT ![d] = @ + 1]
             /\ SetEngine(r.eng)
             /\ SetGhosts(r.gh)
             /\ db_log' = r.log
             /\ api_call' = Some([op |-> "handle_pulse", request |-> next.pulse,
                                  server_time_ms |-> next.server_time_ms])
             /\ api_ret' = Some(r.response)
    /\ UNCHANGED <<last_ping, ping_count, conv_call, conv_ret>>
    /\ UNCHANGED <<engine_call, engine_ret, predict_count>>
    /\ UNCHANGED <<database, db_next_id, priorVars, threadVars>>

HandlePredictPhrase ==
    /\ predict_count < MaxPredicts
    /\ \E request \in PredictRequests, now \in EngineNow,
          eng \in {Engine}, gh \in {Ghosts}, model \in {PriorModel} :
       \E r \in {handle_predict_phrase(eng, gh, model, database,
                                       db_next_id, request, now)} :
         /\ SetEngine(r.eng)
         /\ SetGhosts(r.gh)
         /\ SetPriorModel(r.model)
         /\ db_log' = r.log
         /\ db_next_id' = r.next_id
         /\ api_call' = Some([op |-> "handle_predict_phrase",
                              request |-> request, server_time_ms |-> now])
         /\ api_ret' = Some(r.response)
    /\ predict_count' = predict_count + 1
    /\ UNCHANGED <<last_ping, ping_count, conv_call, conv_ret>>
    /\ UNCHANGED <<engine_call, engine_ret, pulses_sent>>
    /\ UNCHANGED <<database, prior_call, boot_ret, threadVars>>

ApiNext == HandlePulse \/ HandlePredictPhrase

---------------------------------------------------------------------------
(* PredictionAPI.handle_predict_phrase called from several threads in
   bootstrap mode, no database attached.  Step 2 runs
   SlotPriorModel.update_from_patterns outside every lock, one assignment to
   the model after the other; step 3 calls engine.predict_phrase, which reads
   the model inside with self.lock. *)

\* The requests of the threads: their patterns and durations differ in
\* every field of the model they give.
RaceRequests == {
    PredictRequest("d1", None, <<OnsetsAt({0, 5, 10}, 32)>>,
                   <<DursAt(0 :> 2 @@ 5 :> 1 @@ 10 :> 3, 32)>>, <<>>, <<>>),
    PredictRequest("d2", None,
                   <<OnsetsAt({0, 16}, 32), OnsetsAt({16}, 32), OnsetsAt({16}, 32)>>,
                   <<DursAt(0 :> 4 @@ 16 :> 2, 32)>>, <<>>, <<>>) }

\* What update_from_patterns has computed, from the arguments of the request
\* alone, when it starts assigning (slot_prior_model.py lines 62-74).
Computed(request) ==
    update_from_patterns(FreshModel, request.recentPulsePatterns,
                         IF request.recentPulseDurationsSlots # <<>>
                         THEN Some(request.recentPulseDurationsSlots) ELSE None)

\* The positions of a thread inside update_from_patterns, at an assignment.
UpdatePcs == {"set_count", "set_p_onset", "set_zeros", "set_medians",
              "set_confidence"}

\* handle_predict_phrase lines 159-187: the request arrives, step 2 calls
\* update_from_patterns, which computes the counts and durations
BootStart(t) ==
    /\ thread_pc[t] = "idle"
    /\ calls_started < MaxThreadCalls
    /\ calls_started' = calls_started + 1
    /\ \E request \in RaceRequests :
         thread_call' = [thread_call EXCEPT ![t] =
                            ThreadCall("handle_predict_phrase", request)]
    /\ thread_pc' = [thread_pc EXCEPT ![t] = "set_count"]
    /\ UNCHANGED <<lock, priorVars, apiVars>>
    /\ UNCHANGED <<mode, bootstrap_predictor, last_update_time, engine_call,
                   engine_ret, predict_count, pulses_sent>>
    /\ UNCHANGED <<fusionVars, clockVars, tempoVars, gridVars, predictorVars>>

\* One assignment of update_from_patterns: line 62 self.sample_count,
\* line 63 self.p_onset, line 66 self.median_dur_slots = zeros, lines 67-71
\* the medians filled in, line 74 self.confidence.
BootUpdate(t) ==
    /\ thread_pc[t] \in UpdatePcs
    /\ \E m \in {Computed(thread_call[t].args)} :
         \/ /\ thread_pc[t] = "set_count"
            /\ sample_count' = m.sample_count
            /\ thread_pc' = [thread_pc EXCEPT ![t] = "set_p_onset"]
            /\ UNCHANGED <<p_onset, median_dur_slots, confidence>>
         \/ /\ thread_pc[t] = "set_p_onset"
            /\ p_onset' = m.p_onset
            /\ thread_pc' = [thread_pc EXCEPT ![t] = "set_zeros"]
            /\ UNCHANGED <<sample_count, median_dur_slots, confidence>>
         \/ /\ thread_pc[t] = "set_zeros"
            /\ median_dur_slots' = Some(Zeros(slots_per_beat))
            /\ thread_pc' = [thread_pc EXCEPT ![t] = "set_medians"]
            /\ UNCHANGED <<sample_count, p_onset, confidence>>
         \/ /\ thread_pc[t] = "set_medians"
            /\ median_dur_slots' = m.median_dur_slots
            /\ thread_pc' = [thread_pc EXCEPT ![t] = "set_confidence"]
            /\ UNCHANGED <<sample_count, p_onset, confidence>>
         \/ /\ thread_pc[t] = "set_confidence"
            /\ confidence' = m.confidence
            /\ thread_pc' = [thread_pc EXCEPT ![t] = "boot_acquire"]
            /\ UNCHANGED <<sample_count, p_onset, median_dur_slots>>
    /\ UNCHANGED <<lock, thread_call, calls_started, prior_call, boot_ret, apiVars>>
    /\ UNCHANGED <<fusionVars, clockVars, tempoVars, gridVars, predictorVars,
                   engineVars>>

\* handle_predict_phrase line 208 -> predict_phrase line 538: with self.lock
BootAcquire(t) ==
    /\ thread_pc[t] = "boot_acquire"
    /\ lock_free(lock)
    /\ lock' = Some(t)
    /\ thread_pc' = [thread_pc EXCEPT ![t] = "boot_read"]
    /\ UNCHANGED <<thread_call, calls_started, priorVars, apiVars>>
    /\ UNCHANGED <<fusionVars, clockVars, tempoVars, gridVars, predictorVars,
                   engineVars>>

\* predict_phrase lines 541-545 -> _predict_bootstrap: the model is read.  A
\* model that is ready while an array is still None makes get_prior raise;
\* handle_predict_phrase answers that with status error.
BootRead(t) ==
    /\ thread_pc[t] = "boot_read"
    /\ \E model \in {PriorModel}, eng \in {Engine} :
         /\ boot_ret' = Some(model)
         /\ thread_call' =
               [thread_call EXCEPT ![t].ret =
                   IF /\ is_ready(model)
                      /\ (model.median_dur_slots = None \/ model.confidence = None)
                   THEN Some(ErrorResponse("exception"))
                   ELSE Some(predict_bootstrap(eng, model, 1200 * US, None))]
    /\ predict_count' = predict_count + 1
    /\ thread_pc' = [thread_pc EXCEPT ![t] = "boot_release"]
    /\ UNCHANGED <<lock, calls_started, apiVars>>
    /\ UNCHANGED <<p_onset, median_dur_slots, confidence, sample_count, prior_call>>
    /\ UNCHANGED <<mode, bootstrap_predictor, last_update_time, engine_call,
                   engine_ret, pulses_sent>>
    /\ UNCHANGED <<fusionVars, clockVars, tempoVars, gridVars, predictorVars>>

\* predict_phrase returns: the with block is left, the response is built
BootRelease(t) ==
    /\ thread_pc[t] = "boot_release"
    /\ lock' = None
    /\ thread_pc' = [thread_pc EXCEPT ![t] = "idle"]
    /\ UNCHANGED <<thread_call, calls_started, priorVars, apiVars>>
    /\ UNCHANGED <<fusionVars, clockVars, tempoVars, gridVars, predictorVars,
                   engineVars>>

BootThreadsNext ==
    \E t \in Threads :
        BootStart(t) \/ BootUpdate(t) \/ BootAcquire(t) \/ BootRead(t)
            \/ BootRelease(t)

---------------------------------------------------------------------------
(* Specifications: one component at a time, the others left as constructed *)

Init ==
    /\ FusionInit /\ ClockInit /\ TempoInit /\ GridInit /\ PriorInit
    /\ EngineInit /\ NoApi

SpecFusion == Init /\ [][FusionNext]_vars

\* A stream of events that goes on as long as StreamEnd allows.
SpecStream == Init /\ [][StreamNext]_vars /\ WF_vars(AddLater)

SpecClock == Init /\ [][ClockNext]_vars

TempoInitAny ==
    /\ FusionInit
    /\ ClockInit
    /\ \E initial_bpm \in InitialBpms : TempoInitWith(initial_bpm)
    /\ GridInit
    /\ PriorInit
    /\ EngineInit
    /\ NoApi

SpecTempo == TempoInitAny /\ [][TempoNext]_vars

SpecSteady == Init /\ [][SteadyNext]_vars

SpecGrid == Init /\ [][GridNext]_vars

SpecRecords == Init /\ [][RecordsNext]_vars

SpecPrior == Init /\ [][PriorNext]_vars

\* An engine constructed in any mode
EngineInitAny ==
    /\ FusionInit /\ ClockInit /\ TempoInit /\ GridInit /\ PriorInit
    /\ \E m \in Modes : EngineInitWith(m)
    /\ NoApi

SpecEngine == EngineInitAny /\ [][EngineNext]_vars

\* An engine constructed in realtime mode
RealtimeInit ==
    /\ FusionInit /\ ClockInit /\ TempoInit /\ GridInit /\ PriorInit
    /\ EngineInitWith("realtime")
    /\ NoApi

SpecConstraints == RealtimeInit /\ [][ConstraintsNext]_vars

\* An API constructed in bootstrap or realtime mode, with a database that
\* works, one that raises, or none
ApiInitAny == \E m \in ApiModes, db \in Databases : ApiInitWith(m, db)

SpecApi == ApiInitAny /\ [][ApiNext]_vars

\* Threads calling handle_predict_phrase on an API in bootstrap mode.
SpecBootThreads ==
    ApiInitWith("bootstrap", "absent") /\ [][BootThreadsNext]_vars

\* An engine constructed in bootstrap mode with any initial_bpm
BootstrapInit ==
    /\ FusionInit /\ ClockInit /\ GridInit /\ PriorInit
    /\ \E initial_bpm \in InitialBpms : TempoInitWith(initial_bpm)
    /\ EngineInitWith("bootstrap")
    /\ NoApi

SpecBootstrap == BootstrapInit /\ [][EngineNext]_vars

\* Threads calling an engine in realtime mode.  A thread that can take a
\* step is scheduled in the end, and a thread that waits for the lock gets
\* it in the end if the lock keeps being released.
SpecThreads ==
    /\ RealtimeInit
    /\ [][ThreadNext]_vars
    /\ \A t \in Threads : WF_vars(ThreadStep(t)) /\ SF_vars(Acquire(t))

---------------------------------------------------------------------------
(* EventFusion: properties *)

\* The k-th smallest value of a list, by counting.
OrderStat(s, k) ==
    CHOOSE x \in Range(s) :
        /\ Cardinality({i \in 1..Len(s) : s[i] < x}) < k
        /\ Cardinality({i \in 1..Len(s) : s[i] <= x}) >= k

\* The median of a list of whole-millisecond values: the middle value, or
\* the average of the two middle values for an even count.
MedianOf(s) ==
    (OrderStat(s, (Len(s) + 1) \div 2) + OrderStat(s, Len(s) \div 2 + 1)) \div 2

\* How far the median of a cluster lies behind an event.
LagBehind(e, cluster) == e.t_server_ms - MedianOf(Timestamps(cluster))

\* The open clusters once e has joined the first cluster within the window
\* or opened its own.
OpenAfterInsert(cls, e) ==
    LET m == {i \in 1..Len(cls) : Abs(LagBehind(e, cls[i])) <= window_ms}
    IN  IF m = {} THEN Append(cls, <<e>>)
        ELSE LET i == CHOOSE i \in m : \A j \in m : i <= j
             IN  [cls EXCEPT ![i] = Append(@, e)]

\* The clusters an add_event(e) call finalizes, in open-cluster order.
StaleAfterInsert(cls, e) ==
    LET stale(c) == LagBehind(e, c) > 2 * window_ms
    IN  SelectSeq(OpenAfterInsert(cls, e), stale)

\* c is the canonical event of the member list mem
IsCanonicalOf(c, mem) ==
    /\ c.t_server_ms = MedianOf(Timestamps(mem))
    /\ c.dur_ms = MedianOf(Durations(mem))
    /\ c.conf = Len(mem)
    /\ c.contributors = [i \in 1..Len(mem) |-> Contributor(mem[i])]

IsAddEventStep == fusion_added' = fusion_added + 1

\* C1: add_event(e) appends e to the first open cluster, in creation order,
\* whose median is within window_ms of e.t_server_ms, and opens a new
\* single-event cluster [e] when there is none; no other cluster changes.
C1_AppendToFirstMatchOrOpen ==
    [][IsAddEventStep =>
        LET e == last_event'[1]
            m == {i \in 1..Len(clusters) :
                    Abs(e.t_server_ms - MedianOf(Timestamps(clusters[i]))) <= window_ms}
        IN  IF m # {}
            THEN LET i == CHOOSE i \in m : \A j \in m : i <= j
                     grown == Append(clusters[i], e)
                 IN  /\ \E j \in 1..Len(clusters') : clusters'[j] = grown
                     /\ \A j \in 1..Len(clusters') :
                           \/ clusters'[j] = grown
                           \/ \E k \in (1..Len(clusters)) \ {i} :
                                 clusters'[j] = clusters[k]
            ELSE /\ Len(clusters') >= 1
                 /\ clusters'[Len(clusters')] = <<e>>
                 /\ \A j \in 1..(Len(clusters') - 1) :
                       \E k \in 1..Len(clusters) : clusters'[j] = clusters[k]
    ]_vars

\* C1 happens: the last event joined the second open cluster, the first one
\* being out of its window.
C1_Witness ==
    /\ last_event # None
    /\ Len(clusters) >= 2
    /\ Len(clusters[2]) >= 2
    /\ clusters[2][Len(clusters[2])] = last_event[1]
    /\ Abs(LagBehind(last_event[1], clusters[1])) > window_ms

\* C2: after add_event(e), no open cluster lags e by more than 2*window_ms:
\* each such cluster left the open set in that call and its canonical event
\* was appended to canonical_events, and every other cluster is still open.
C2_StaleClustersFinalized ==
    [][IsAddEventStep =>
        LET e == last_event'[1]
            fresh(c) == LagBehind(e, c) <= 2 * window_ms
            stale == StaleAfterInsert(clusters, e)
            base == Len(canonical_events)
        IN  /\ \A j \in 1..Len(clusters') : fresh(clusters'[j])
            /\ clusters' = SelectSeq(OpenAfterInsert(clusters, e), fresh)
            /\ Len(canonical_events') = base + Len(stale)
            /\ \A k \in 1..Len(stale) :
                  /\ IsCanonicalOf(canonical_events'[base + k], stale[k])
                  /\ \A j \in 1..Len(clusters') : clusters'[j] # stale[k]
    ]_vars

\* C2 happens: a call finalized a cluster and left two clusters open, one of
\* them exactly 2*window_ms behind the event.
C2_Witness ==
    /\ add_ret # None
    /\ Len(clusters) >= 2
    /\ \E j \in 1..Len(clusters) :
          LagBehind(last_event[1], clusters[j]) = 2 * window_ms

\* C3: a canonical event made from a finalized cluster has the median of the
\* members' timestamps and of their durations, conf = the member count,
\* one contributor per member in insertion order, and spread 0 for a single
\* member.
C3_CanonicalFields ==
    [][IsAddEventStep =>
        LET stale == StaleAfterInsert(clusters, last_event'[1])
            base == Len(canonical_events)
        IN  /\ Len(canonical_events') = base + Len(stale)
            /\ \A k \in 1..Len(stale) :
                  LET c == canonical_events'[base + k]
                      mem == stale[k]
                  IN  /\ c.t_server_ms = MedianOf(Timestamps(mem))
                      /\ c.dur_ms = MedianOf(Durations(mem))
                      /\ c.conf = Len(mem)
                      /\ Len(c.contributors) = c.conf
                      /\ c.conf >= 1
                      /\ \A i \in 1..Len(mem) :
                            c.contributors[i] = Contributor(mem[i])
                      /\ (Len(mem) = 1 => c.spread_ms = 0)
    ]_vars

\* C3 happens: a two-member cluster was finalized whose median is the
\* average of two different timestamps, and a single-member one.
C3_Witness ==
    /\ \E i \in 1..Len(canonical_events) :
          /\ canonical_events[i].conf = 2
          /\ canonical_events[i].t_server_ms % US # 0
          /\ canonical_events[i].spread_ms > 0
    /\ \E i \in 1..Len(canonical_events) : canonical_events[i].conf = 1

OpenCount == SumSeq([i \in 1..Len(clusters) |-> Len(clusters[i])])

CanonicalCount ==
    SumSeq([i \in 1..Len(canonical_events) |-> canonical_events[i].conf])

\* C4: with fewer than 1000 finalizations, the events added are the members
\* of the open clusters plus the events counted by the canonical events, and
\* a canonical event in canonical_events is never changed by a later call.
C4_EventsConserved ==
    /\ [](Len(canonical_events) < CanonicalMaxLen =>
            fusion_added = OpenCount + CanonicalCount)
    /\ [][Len(canonical_events') < CanonicalMaxLen =>
            /\ Len(canonical_events') >= Len(canonical_events)
            /\ \A i \in 1..Len(canonical_events) :
                  canonical_events'[i] = canonical_events[i]
       ]_vars

\* C4 happens: events are held both by open clusters and by canonical events.
C4_Witness ==
    /\ fusion_added = MaxEvents
    /\ Len(clusters) >= 2
    /\ \E i \in 1..Len(canonical_events) : canonical_events[i].conf >= 2

\* C5: a call that finalizes n >= 1 clusters returns the canonical event of
\* the first of them in open-cluster order and appends all n in that order;
\* it returns None exactly when it finalizes none.
C5_ReturnsFirstFinalized ==
    [][IsAddEventStep =>
        LET stale == StaleAfterInsert(clusters, last_event'[1])
            base == Len(canonical_events)
        IN  /\ (add_ret' = None) <=> (Len(stale) = 0)
            /\ Len(canonical_events') = base + Len(stale)
            /\ \A k \in 1..Len(stale) :
                  IsCanonicalOf(canonical_events'[base + k], stale[k])
            /\ Len(stale) >= 1 =>
                  /\ add_ret' = Some(canonical_events'[base + 1])
                  /\ IsCanonicalOf(add_ret'[1], stale[1])
    ]_vars

\* C5 happens: the third call finalized two clusters at once and returned
\* the first.
C5_Witness ==
    /\ fusion_added = 3
    /\ Len(canonical_events) = 2
    /\ Len(clusters) = 1
    /\ add_ret = Some(canonical_events[1])
    /\ canonical_events[1] # canonical_events[2]

---------------------------------------------------------------------------
(* DeviceClockSync: properties *)

IsPingStep == ping_count' = ping_count + 1

\* t1 - (t0 + (t2 - t0)/2) for whole-millisecond t0, t1, t2: twice the
\* offset is a whole number of microseconds.
RawOffset(t0, t1, t2) == (2 * t1 - 2 * t0 - (t2 - t0)) \div 2

\* C6: update_from_ping(d, t0, t1, t2) sets the offset of a device without
\* an earlier sample to raw = t1 - (t0 + (t2 - t0)/2) and its drift to 1.0,
\* blends a known device's offset as (1 - alpha)*old + alpha*raw, and leaves
\* every other device's offset, drift and history as they were.
C6_PingSetsOrBlendsOffset ==
    [][IsPingStep =>
        LET d == last_ping'[1][1]
            raw == RawOffset(last_ping'[1][2], last_ping'[1][3], last_ping'[1][4])
        IN  /\ d \in DOMAIN offsets' /\ d \in DOMAIN drifts'
            /\ d \notin DOMAIN offsets =>
                  /\ offsets'[d] = raw
                  /\ drifts'[d] = DriftOne
            /\ d \in DOMAIN offsets =>
                  10 * offsets'[d] - (9 * offsets[d] + raw) \in -5..5
            /\ \A x \in Devices \ {d} :
                  /\ (x \in DOMAIN offsets') <=> (x \in DOMAIN offsets)
                  /\ (x \in DOMAIN drifts') <=> (x \in DOMAIN drifts)
                  /\ (x \in DOMAIN offset_history') <=> (x \in DOMAIN offset_history)
                  /\ x \in DOMAIN offsets =>
                        /\ offsets'[x] = offsets[x]
                        /\ drifts'[x] = drifts[x]
                        /\ offset_history'[x] = offset_history[x]
    ]_vars

\* C6 happens: both devices are calibrated, d1's first sample was the 45.5 ms
\* one and a later sample of 55 ms was blended in: 0.9 * 45.5 + 0.1 * 55.
C6_Witness ==
    /\ DOMAIN offsets = Devices
    /\ Len(offset_history["d1"]) = 2
    /\ offset_history["d1"][1][2] = 45500
    /\ offsets["d1"] = 46450

\* C7: convert_to_server_time(device, t) returns t for a device that was
\* never passed to update_from_ping and drift*t + offset for a device with
\* a sample, and leaves the clock-sync state as it was.
C7_ConvertIdentityUntilCalibrated ==
    /\ [](conv_call # None =>
            LET d == conv_call[1][1]
                t == conv_call[1][2]
            IN  /\ conv_ret # None
                /\ d \notin DOMAIN offset_history =>
                      /\ conv_ret[1] = t
                      /\ d \notin DOMAIN offsets
                      /\ d \notin DOMAIN drifts
                /\ d \in DOMAIN offset_history =>
                      conv_ret[1] =
                          t + RoundDiv(t * (drifts[d] - DriftOne), DriftOne) + offsets[d])
    /\ [][conv_call' # None =>
            /\ offsets' = offsets
            /\ drifts' = drifts
            /\ offset_history' = offset_history
       ]_vars

\* C7 happens: a conversion for a device that was never calibrated while the
\* other device has a drift other than 1.0.
C7_Witness ==
    /\ conv_call # None
    /\ conv_call[1][1] \notin DOMAIN offsets
    /\ conv_call[1][2] > 0
    /\ \E x \in DOMAIN drifts : drifts[x] # DriftOne

\* C7 happens: a conversion for a device whose drift is not 1.0.
C7_WitnessDrift ==
    /\ conv_call # None
    /\ conv_call[1][1] \in DOMAIN offsets
    /\ conv_call[1][2] > 0
    /\ drifts[conv_call[1][1]] # DriftOne

---------------------------------------------------------------------------
(* TempoTracker: properties *)

\* C8: for a tracker constructed with initial_bpm in [60, 200], after any
\* updates bpm is in [60, 200] and beat_ms = 60000 / bpm, so that beat_ms is
\* in [300, 1000] ms.
C8_BpmClamped ==
    /\ min_bpm <= bpm /\ bpm <= max_bpm
    /\ beat_ms = SixtyThousandOver(bpm)
    /\ 300 * US <= beat_ms /\ beat_ms <= 1000 * US

\* C8 happens: an early event on a later beat asked for a tempo above
\* max_bpm and the tracker is at max_bpm.
C8_Witness ==
    /\ tempo_last # None
    /\ tempo_last[1].k > 0
    /\ tempo_last[1].err <= -10 * US
    /\ bpm = max_bpm

\* C9: from initial_bpm = 120, events exactly 500 ms apart keep bpm within
\* 1% of 120 after every event: each update after the first has timing
\* error 0 and leaves bpm, beat_ms and t_last_beat as they were.
C9_SteadyStreamHoldsTempo ==
    /\ [](100 * Abs(bpm - default_bpm) <= default_bpm)
    /\ [][(tempo_updates' = tempo_updates + 1 /\ t_last_beat # None) =>
            /\ tempo_last'[1].err = 0
            /\ bpm' = bpm
            /\ beat_ms' = beat_ms
            /\ t_last_beat' = t_last_beat
       ]_vars

\* C9 happens: twenty events of the stream have been fed.
C9_Witness ==
    /\ tempo_updates >= 20
    /\ tempo_last[1].k >= 19
    /\ tempo_last[1].t = t_last_beat[1] + 19 * SteadyPeriod

\* C10: for a tracker that has seen an event, get_next_phrase_start(t_now)
\* is strictly after t_now and a whole number of beats (of 32 slots) away
\* from t_last_beat; for an untracked tracker it is t_now.
C10_PhraseStartAheadOnGrid ==
    phrase_call # None =>
        LET t_now == phrase_call[1]
            p == phrase_ret[1]
        IN  /\ t_last_beat = None => p = t_now
            /\ t_last_beat # None =>
                  /\ p > t_now
                  /\ (p - t_last_beat[1]) % beat_ms = 0

\* C10 happens: the call was made with t_now exactly at t_last_beat, after
\* the tempo has moved off its initial value.
C10_Witness ==
    /\ phrase_call # None
    /\ phrase_call = t_last_beat
    /\ bpm \notin InitialBpms

---------------------------------------------------------------------------
(* GridEncoder: properties *)

\* s is n / d rounded to the nearest integer, a tie going to the even one
IsRounded(s, n, d) ==
    \/ 2 * Abs(n - s * d) < d
    \/ 2 * Abs(n - s * d) = d /\ s % 2 = 0

IsGridStep == grid_count' = grid_count + 1

\* C11: add_event(event, slot_ms, hist_start) records the event when
\* s = round((event.t_server_ms - hist_start) / slot_ms) is in
\* 0..history_slots-1: hist_onset[s] = 1, hist_hold = 1 on the slots from s
\* to s + max(1, round(dur_ms / slot_ms)) - 1 that are in the buffer,
\* hist_conf[s] = min(1, conf / 5); for any other s the three arrays stay as
\* they were.  An event exactly history_slots slots after hist_start is
\* dropped, one exactly one slot earlier is recorded in the last slot.
C11_RecordedIffSlotInBuffer ==
    [][IsGridStep =>
        LET c == grid_call'[1]
            n == (c.event.t_server_ms - c.hist_start) * c.slot_ms.den
            d == c.slot_ms.num
            inBuf == {s \in 0..(history_slots - 1) : IsRounded(s, n, d)}
            unchanged == /\ hist_onset' = hist_onset
                         /\ hist_hold' = hist_hold
                         /\ hist_conf' = hist_conf
        IN  /\ inBuf = {} => unchanged
            /\ \A s \in inBuf :
                  LET k == CHOOSE k \in 0..(4 * history_slots) :
                               IsRounded(k, c.event.dur_ms * c.slot_ms.den, d)
                      len == IF k < 1 THEN 1 ELSE k
                  IN  /\ hist_onset' = [hist_onset EXCEPT ![s] = 1]
                      /\ \A j \in 0..(history_slots - 1) :
                            hist_hold'[j] = IF j \in s..(s + len - 1) THEN 1
                                            ELSE hist_hold[j]
                      /\ hist_conf'[s].den * Min(c.event.conf, 5) =
                             hist_conf'[s].num * 5
                      /\ hist_conf'[s].num <= hist_conf'[s].den
                      /\ \A j \in (0..(history_slots - 1)) \ {s} :
                            hist_conf'[j] = hist_conf[j]
            /\ n = history_slots * d => unchanged
            /\ n = (history_slots - 1) * d => hist_onset'[history_slots - 1] = 1
    ]_vars

\* C11 happens: an event one slot before the end of the window was recorded
\* in the last slot with a hold cut off at the end of the buffer, and the
\* last call, with an event exactly at the end of the window, was dropped.
C11_Witness ==
    /\ grid_count = 2
    /\ grid_call[1].event.t_server_ms - grid_call[1].hist_start = 4000 * US
    /\ grid_call[1].slot_ms = Frac(500 * US, 32)
    /\ hist_onset[history_slots - 1] = 1
    /\ hist_hold[history_slots - 1] = 1
    /\ hist_conf[history_slots - 1] = Frac(3, 5)
    /\ \A j \in 0..(history_slots - 2) : hist_onset[j] = 0 /\ hist_hold[j] = 0

---------------------------------------------------------------------------
(* SlotPriorModel and BootstrapPhrasePredictor: properties *)

\* C13: predict_phrase returns three arrays of 128 entries; all zero when the
\* model is not ready; otherwise onset[i] = 1 iff p_onset[i mod 32] > 0.5,
\* dur_slots[i] = max(1, median_dur_slots[i mod 32]) where onset[i] = 1 and
\* 0 elsewhere, confidence[i] = confidence[i mod 32] for every i.  With
\* p_onset > 0.5 exactly at slots 0, 5, 10 the onsets are exactly at
\* 0, 5, 10, 32, 37, 42, 64, 69, 74, 96, 101, 106.
C13_BootstrapPhraseFromPriors ==
    boot_ret # None =>
        LET r == boot_ret[1]
            slots == 0..(PhraseSlots - 1)
        IN  /\ DOMAIN r.onset = slots
            /\ DOMAIN r.dur_slots = slots
            /\ DOMAIN r.confidence = slots
            /\ (p_onset = None \/ sample_count = 0) =>
                  \A i \in slots : /\ r.onset[i] = 0
                                   /\ r.dur_slots[i] = 0
                                   /\ r.confidence[i].num = 0
            /\ (p_onset # None /\ sample_count > 0) =>
                  LET hot == {j \in 0..31 : 2 * p_onset[1][j].num > p_onset[1][j].den}
                  IN  /\ \A i \in slots :
                            LET j == i % 32
                                m == median_dur_slots[1][j]
                            IN  /\ r.onset[i] = 1 <=> j \in hot
                                /\ r.onset[i] = 0 <=> j \notin hot
                                /\ j \in hot => r.dur_slots[i] = IF m < 1 THEN 1 ELSE m
                                /\ j \notin hot => r.dur_slots[i] = 0
                                /\ r.confidence[i] = confidence[1][j]
                      /\ hot = {0, 5, 10} =>
                            {i \in slots : r.onset[i] = 1} =
                                {0, 5, 10, 32, 37, 42, 64, 69, 74, 96, 101, 106}

\* C13 happens: a prediction from priors above 0.5 exactly at slots 0, 5, 10
\* with median durations 2, 1, 3, and a prior and confidence of exactly 1/2
\* at slot 16, where no onset is predicted.
C13_Witness ==
    /\ boot_ret # None
    /\ sample_count = 2
    /\ {j \in 0..31 : 2 * p_onset[1][j].num > p_onset[1][j].den} = {0, 5, 10}
    /\ median_dur_slots[1][0] = 2
    /\ median_dur_slots[1][5] = 1
    /\ median_dur_slots[1][10] = 3
    /\ boot_ret[1].onset[48] = 0
    /\ boot_ret[1].confidence[48] = Frac(1, 2)
    /\ boot_ret[1].dur_slots[74] = 3

IsPriorUpdateStep == prior_call' # None /\ boot_ret' = None

\* C17 as claimed: after every update_from_patterns call the model is what
\* the same call makes of a fresh model, so that it depends on the call's
\* arguments alone.
C17_EveryCallReplaces ==
    [][IsPriorUpdateStep =>
        LET c == prior_call'[1]
        IN  PriorModel' = update_from_patterns(FreshModel, c.patterns, c.durations)
    ]_vars

\* C17 as amended: a call with a non-empty list of patterns replaces the
\* model: the result is what the same call makes of a fresh model, with
\* sample_count = len(patterns); a call with an empty list leaves the model
\* as it was; repeating a call changes nothing.
C17_NonEmptyCallReplaces ==
    [][IsPriorUpdateStep =>
        LET c == prior_call'[1]
        IN  /\ c.patterns # <<>> =>
                  /\ PriorModel' =
                         update_from_patterns(FreshModel, c.patterns, c.durations)
                  /\ sample_count' = Len(c.patterns)
                  /\ p_onset' # None
                  /\ confidence' = p_onset'
            /\ c.patterns = <<>> => PriorModel' = PriorModel
            /\ update_from_patterns(PriorModel', c.patterns, c.durations) = PriorModel'
    ]_vars

\* C17 happens: the last call had an empty list of patterns and the model
\* still holds the priors of an earlier call with two patterns.
C17_Witness ==
    /\ prior_call # None
    /\ prior_call[1].patterns = <<>>
    /\ sample_count = 2
    /\ p_onset # None
    /\ p_onset[1][16] = Frac(1, 2)
    /\ boot_ret = None

---------------------------------------------------------------------------
(* PredictionEngine: properties *)

IsOnset(x) == 2 * x > 1

\* The hold window of an onset at slot i: i .. i + max(1, dur) - 1
InWindow(j, i, dur) == i < j /\ j < i + Max(1, dur)

\* No onset lies inside the hold window of an earlier onset.
NoOverlap(onset, dur_slots) ==
    \A i \in DOMAIN onset :
        IsOnset(onset[i]) =>
            \A j \in DOMAIN onset :
                IsOnset(onset[j]) => ~InWindow(j, i, dur_slots[i])

\* C12: _apply_constraints returns lists without overlapping holds: an onset
\* inside the hold window of an earlier onset that was kept has onset 0 and
\* duration 0 afterwards, every other slot is as it was; for onset =
\* [1, 1, 0, ...] and dur_slots = [3, 1, 0, ...] the onset at slot 1 goes; and
\* every phrase predicted in realtime mode is free of overlaps.
C12_NoOverlappingHolds ==
    /\ engine_call.op = "_apply_constraints" =>
          LET onset == engine_call.args[1]
              dur_slots == engine_call.args[2]
              out == engine_ret[1]
              covered(j) == \E i \in 0..(j - 1) :
                               /\ IsOnset(out.onset[i])
                               /\ InWindow(j, i, dur_slots[i])
          IN  /\ DOMAIN out.onset = 0..(PhraseSlots - 1)
              /\ DOMAIN out.dur_slots = 0..(PhraseSlots - 1)
              /\ NoOverlap(out.onset, out.dur_slots)
              /\ \A j \in DOMAIN onset :
                    IF IsOnset(onset[j]) /\ covered(j)
                    THEN out.onset[j] = 0 /\ out.dur_slots[j] = 0
                    ELSE out.onset[j] = onset[j] /\ out.dur_slots[j] = dur_slots[j]
              /\ (/\ \A j \in DOMAIN onset : IsOnset(onset[j]) <=> j \in {0, 1}
                  /\ dur_slots[0] = 3
                  /\ dur_slots[1] = 1) => out.onset[1] = 0
    /\ (engine_call.op = "predict_phrase" /\ engine_ret # None) =>
          NoOverlap(engine_ret[1].onset, engine_ret[1].dur_slots)

\* C12 happens: a realtime prediction from a history with onsets in its last
\* two slots, where the onset predicted at slot 30 holds for two slots and
\* the one predicted at slot 31 was dropped.
C12_Witness ==
    /\ engine_call.op = "predict_phrase"
    /\ engine_ret # None
    /\ hist_onset[history_slots - 2] = 1
    /\ hist_onset[history_slots - 1] = 1
    /\ engine_ret[1].onset[30] = 1
    /\ engine_ret[1].dur_slots[30] = 2
    /\ engine_ret[1].onset[31] = 0
    /\ engine_ret[1].onset[62] = 1

IsPhraseOutput(r) ==
    DOMAIN r = {"phrase_start_server_ms", "bpm", "slot_ms", "slots_per_beat",
                "phrase_beats", "onset", "dur_slots", "confidence"}

\* C14 as stated: predict_phrase returns None only when the mode is realtime
\* and no canonical event has reached the tempo tracker; in every other
\* combination of mode, bootstrap predictor and state it returns a phrase.
C14_NoneOnlyInRealtimeMode ==
    engine_call.op = "predict_phrase" =>
        IF mode = "realtime" /\ t_last_beat = None
        THEN engine_ret = None
        ELSE engine_ret # None /\ IsPhraseOutput(engine_ret[1])

\* C14 as amended: predict_phrase returns None exactly when it takes the
\* realtime path (the mode is not bootstrap, or no bootstrap predictor is
\* attached) and no canonical event has reached the tempo tracker; in every
\* other case it returns a phrase.
C14_NoneOnRealtimePathWithoutBeat ==
    engine_call.op = "predict_phrase" =>
        IF ~(mode = "bootstrap" /\ bootstrap_predictor) /\ t_last_beat = None
        THEN engine_ret = None
        ELSE engine_ret # None /\ IsPhraseOutput(engine_ret[1])

\* C14 happens: an engine in deterministic mode, with a bootstrap predictor
\* attached and pulses processed but no canonical event yet, returned None.
C14_Witness ==
    /\ engine_call.op = "predict_phrase"
    /\ mode = "deterministic"
    /\ bootstrap_predictor
    /\ fusion_added > 0
    /\ t_last_beat = None
    /\ engine_ret = None

\* C15: a call of get_state changes no state of the engine (clock sync,
\* fusion clusters and history, tempo tracker, grid arrays, predictor,
\* last_update_time), and a get_state call that follows a get_state call
\* with no process_pulse or predict_phrase call between them returns an
\* equal snapshot.
C15_GetStateChangesNothing ==
    [][engine_call'.op = "get_state" =>
        /\ Engine' = Engine
        /\ engine_ret' = Some(get_state(Engine).ret)
        /\ engine_call.op = "get_state" => engine_ret' = engine_ret
    ]_vars

\* C15 happens: get_state was called on an engine that has fused canonical
\* events, tracked a beat, recorded an onset and predicted a phrase.
C15_Witness ==
    /\ engine_call.op = "get_state"
    /\ engine_ret[1].num_canonical_events >= 2
    /\ engine_ret[1].t_last_beat # None
    /\ engine_ret[1].grid_encoder.hist_onset[history_slots - 2] = 1
    /\ engine_ret[1].predictor.pattern_ema_length = history_slots

InUnitInterval(p) == p.den > 0 /\ 0 <= p.num /\ p.num <= p.den

\* C18: in every phrase predict_phrase returns, the onset, dur_slots and
\* confidence arrays have exactly 128 entries and every confidence lies in
\* [0, 1], in bootstrap and in realtime mode, after any calls of
\* process_pulse and update_from_patterns: a realtime confidence is the
\* hist_conf entry min(1, conf / 5) of the last beat of the history, a
\* bootstrap confidence is an onset count over the number of patterns.
C18_ConfidenceInUnitInterval ==
    [][(predict_count' # predict_count /\ engine_ret' # None) =>
        LET r == engine_ret'[1]
            slots == 0..(PhraseSlots - 1)
        IN  /\ DOMAIN r.onset = slots
            /\ DOMAIN r.dur_slots = slots
            /\ DOMAIN r.confidence = slots
            /\ \A i \in slots : InUnitInterval(r.confidence[i])
            /\ \A i \in DOMAIN hist_conf :
                  /\ InUnitInterval(hist_conf[i])
                  /\ hist_conf[i].num > 0 => hist_conf[i].den = ConfFull
            /\ IF mode = "bootstrap" /\ bootstrap_predictor
               THEN \A i \in slots :
                      /\ r.confidence[i].den = Max(1, sample_count)
                      /\ r.confidence[i].num \in 0..sample_count
               ELSE \A i \in slots :
                      r.confidence[i] =
                          hist_conf[history_slots - 32 + (i % 32)]
    ]_vars

\* C18 happens: a realtime phrase carries the confidence 1/5 of a canonical
\* event of one pulse, and a bootstrap phrase the confidence 1/2 of an
\* onset seen in one of two patterns.
C18_Witness ==
    /\ engine_call.op = "predict_phrase"
    /\ engine_ret # None
    /\ \/ /\ mode = "realtime"
          /\ engine_ret[1].confidence[30] = Frac(1, 5)
       \/ /\ mode = "bootstrap"
          /\ bootstrap_predictor
          /\ fusion_added > 0
          /\ engine_ret[1].confidence[16] = Frac(1, 2)
          /\ engine_ret[1].confidence[0] = Frac(2, 2)

InCritical(t) == thread_pc[t] \in CriticalPcs

\* At most one thread is inside a with self.lock block, and it is the one
\* that holds the lock.
MutualExclusion ==
    /\ \A t, u \in Threads : InCritical(t) /\ InCritical(u) => t = u
    /\ \A t \in Threads : InCritical(t) <=> lock = Some(t)

\* What predict_phrase and get_state are about to read: every canonical
\* event the tempo tracker has taken, the grid encoder and the predictor's
\* duration patterns have taken too.
ReadersSeeWholeUpdates ==
    \A t \in Threads :
        thread_pc[t] = "read" =>
            /\ tempo_updates = grid_count
            /\ \A u \in Threads : thread_pc[u] \notin {"tempo", "encode", "finish"}

---------------------------------------------------------------------------
(* PredictionAPI: storage is best effort *)

\* What the handler called last answers, and leaves behind, when no database
\* is attached.
WithoutDatabase(call, eng, gh, model) ==
    IF call.op = "handle_pulse"
    THEN Only({[response |-> r.response, eng |-> r.eng, model |-> model] :
                  r \in {handle_pulse(eng, gh, "absent", call.request,
                                      call.server_time_ms)}})
    ELSE Only({[response |-> r.response, eng |-> r.eng, model |-> r.model] :
                  r \in {handle_predict_phrase(eng, gh, model, "absent", db_next_id,
                                               call.request, call.server_time_ms)}})

\* Every update_prediction call of the request carries the record id an
\* insert_prediction call of the same request returned.
UpdatesWhatWasInserted(log) ==
    \A i \in 1..Len(log) :
        log[i].op = "update_prediction" =>
            \E j \in 1..(i - 1) :
                /\ log[j].op = "insert_prediction"
                /\ ~log[j].raised
                /\ log[j].ret = Some(log[i].arg)

\* C19: handle_pulse and handle_predict_phrase answer with the same status
\* and the same prediction or canonical event, and leave the same engine and
\* slot priors, whether the database answers, raises or is absent; a raising
\* database is never the cause of status "error"; update_prediction is
\* called only after a phrase was produced and only with the record id that
\* insert_prediction returned in the same request.
C19_StorageIsBestEffort ==
    [][\E r \in {WithoutDatabase(api_call'[1], Engine, Ghosts, PriorModel)} :
          /\ api_ret' = Some(r.response)
          /\ Engine' = r.eng
          /\ PriorModel' = r.model
          /\ api_ret'[1].status = "error" =>
                 /\ api_ret'[1].message = "Not enough data for prediction"
                 /\ Engine'.tempo.t_last_beat = None
          /\ UpdatesWhatWasInserted(db_log')
          /\ (\E i \in 1..Len(db_log') : db_log'[i].op = "update_prediction") =>
                 /\ api_call'[1].op = "handle_predict_phrase"
                 /\ api_ret'[1].status = "success"]_vars

\* C19 happens: a request was answered with a phrase although the database
\* raised when the prediction was stored, after a request that was answered
\* from a database that raises on every call would have been too.
C19_Witness ==
    /\ database = "update_raises"
    /\ api_ret # None
    /\ api_ret[1].status = "success"
    /\ \E i \in 1..Len(db_log) :
          /\ db_log[i].op = "update_prediction"
          /\ db_log[i].raised
    /\ \E j \in 1..Len(db_log) :
          /\ db_log[j].op = "insert_prediction"
          /\ ~db_log[j].raised

---------------------------------------------------------------------------
(* TempoTracker: t_last_beat as the last beat boundary *)

\* C20: t_last_beat is the server time of the most recent beat boundary:
\* after update(e) for an event e that follows the first, in a stream of
\* events with increasing timestamps, |e.t_server_ms - t_last_beat| <= beat_ms.
C20_LastBeatWithinOneBeat ==
    tempo_updates >= 2 =>
        Abs(tempo_last[1].t - t_last_beat[1]) <= beat_ms

---------------------------------------------------------------------------
(* PredictionEngine: canonical events on the grid *)

\* The history window start that process_pulse computes once the tempo
\* tracker tr has been updated.
WindowStart(tr) == tr.t_last_beat[1] - history_beats * tr.beat_ms

\* A process_pulse step that returns a canonical event.
IsCanonicalStep == pulses_sent' # pulses_sent /\ engine_ret' # None

\* C21: after process_pulse returns canonical event c, hist_onset holds a 1
\* at slot round((c.t_server_ms - hist_start) / slot_ms), hist_start being
\* t_last_beat - history_beats * beat_ms after the tempo update; this
\* includes the first canonical event of an engine.
C21_CanonicalEventOnGrid ==
    [][IsCanonicalStep =>
          \E s \in {grid_slot(engine_ret'[1].t_server_ms, get_slot_ms(Tracker'),
                               WindowStart(Tracker'))} :
              /\ s \in 0..(history_slots - 1)
              /\ hist_onset'[s] = 1]_vars

---------------------------------------------------------------------------
(* GridEncoder: the history as a window that moves *)

\* The slots event e holds in the window that starts at hist_start: its
\* onset slot and the slots of its hold.
SlotsInWindow(e, slot_ms, hist_start) ==
    LET first == grid_slot(e.t_server_ms, slot_ms, hist_start)
    IN  [onset |-> first,
         hold |-> first..(first + grid_dur_slots(e.dur_ms, slot_ms) - 1)]

\* C22: the history is a ring buffer in which new slots evict the oldest:
\* when the second add_event call is made with a later window start, every
\* non-zero entry of hist_onset, hist_hold and hist_conf lies where one of
\* the two events falls in the window of that call; what the first event
\* wrote has moved towards the old end or has left the buffer.
C22_EntriesInsideCurrentWindow ==
    [][(IsGridStep /\ grid_count = 1
            /\ grid_call'[1].hist_start > grid_call[1].hist_start) =>
          \E now \in {grid_call'[1]} :
          \E placed \in {{SlotsInWindow(e, now.slot_ms, now.hist_start) :
                              e \in {grid_call[1].event, now.event}}} :
             \A j \in 0..(history_slots - 1) :
                /\ hist_onset'[j] # 0 => \E p \in placed : j = p.onset
                /\ hist_conf'[j].num # 0 => \E p \in placed : j = p.onset
                /\ hist_hold'[j] # 0 => \E p \in placed : j \in p.hold]_vars

---------------------------------------------------------------------------
(* PredictionAPI: the slot priors under concurrent requests *)

\* The models that completed update_from_patterns calls of the requests
\* leave behind.
CompletedModels == {Computed(request) : request \in RaceRequests}

\* C23: with concurrent handle_predict_phrase requests in bootstrap mode,
\* the p_onset, median_dur_slots, confidence and sample_count that
\* predict_phrase reads for a phrase come from one completed
\* update_from_patterns call, never from a model another request is
\* part-way through updating.
C23_PredictReadsCompletedModel ==
    \A t \in Threads :
        thread_pc[t] = "boot_read" => PriorModel \in CompletedModels

---------------------------------------------------------------------------
(* SlotPriorModel: patterns shorter than 32 slots *)

\* The patterns of the batch that have an onset at slot i of their first 32.
OnsetAt(patterns, i) ==
    {k \in 1..Len(patterns) :
        Len(patterns[k]) >= slots_per_beat /\ patterns[k][i + 1] > 0}

\* C24: update_from_patterns on a non-empty batch of N patterns skips the
\* patterns shorter than 32 but counts them in N: p_onset[i] is the number
\* of patterns of length >= 32 with an onset at i, over N, and
\* sample_count = N; a batch of short patterns only leaves the model ready
\* with every p_onset 0 and every median_dur_slots 1.
C24_ShortPatternsCountInN ==
    [][(IsPriorUpdateStep /\ prior_call'[1].patterns # <<>>) =>
          \E patterns \in {prior_call'[1].patterns} :
             /\ sample_count' = Len(patterns)
             /\ p_onset' # None
             /\ \A i \in 0..(slots_per_beat - 1) :
                   p_onset'[1][i].num * Len(patterns) =
                       Cardinality(OnsetAt(patterns, i)) * p_onset'[1][i].den
             /\ (\A k \in 1..Len(patterns) : Len(patterns[k]) < slots_per_beat) =>
                   /\ is_ready(PriorModel')
                   /\ \A i \in 0..(slots_per_beat - 1) :
                         /\ p_onset'[1][i].num = 0
                         /\ median_dur_slots'[1][i] = 1]_vars

\* C24 happens: the last call had two patterns, one of 16 slots and one of
\* 32, with durations, and the onsets of the long one have probability 1/2.
C24_Witness ==
    /\ prior_call # None
    /\ Len(prior_call[1].patterns) = 2
    /\ Len(prior_call[1].patterns[1]) < slots_per_beat
    /\ Len(prior_call[1].patterns[2]) = slots_per_beat
    /\ prior_call[1].durations # None
    /\ sample_count = 2
    /\ p_onset[1][5] = Frac(1, 2)
    /\ p_onset[1][3] = Frac(0, 2)
    /\ boot_ret = None

---------------------------------------------------------------------------
(* SlotPriorModel: records with a pattern or durations only *)

\* l made 32 slots long: element i is l[i mod len], 0-based
Tiled(l) == [i \in 1..slots_per_beat |-> l[((i - 1) % Len(l)) + 1]]

\* The records that have a pattern, in the order of the list.
WithPattern(records) ==
    SelectSeq([i \in 1..Len(records) |-> i], LAMBDA i : records[i].pattern # None)

\* C25: update_from_db_records passes update_from_patterns lists that are
\* aligned: patterns[k] is the pattern of the k-th record that has one, made
\* 32 slots long by tiling or truncation, and durations[k], for every k of
\* the durations list, is the durations field of that same record, made 32
\* slots long in the same way.
C25_DurationsOfTheSameRecord ==
    [][IsPriorUpdateStep =>
          \E c \in {prior_call'[1]} :
          \E from \in {WithPattern(c.records)} :
             /\ Len(c.patterns) = Len(from)
             /\ \A k \in 1..Len(c.patterns) :
                   c.patterns[k] = Tiled(c.records[from[k]].pattern[1])
             /\ c.durations # None =>
                   \A k \in 1..Len(c.durations[1]) :
                      /\ k <= Len(from)
                      /\ c.records[from[k]].durations # None
                      /\ c.durations[1][k] =
                             Tiled(c.records[from[k]].durations[1])]_vars

---------------------------------------------------------------------------
(* PredictionEngine: the start of a bootstrap phrase *)

\* A predict_phrase step of an engine in bootstrap mode with its predictor.
IsBootstrapPredictStep ==
    predict_count' # predict_count /\ mode = "bootstrap" /\ bootstrap_predictor

\* C26: in bootstrap mode with a bootstrap predictor, predict_phrase returns
\* a phrase that starts one beat of 60000 / b ms after server_time_ms, with
\* bpm = b and slot_ms = 60000 / (32 b), b being the bpm given or else the
\* tracker's; tempo tracker, fusion and grid are left as they were.
C26_BootstrapPhraseOneBeatAhead ==
    [][IsBootstrapPredictStep =>
          \E now \in {engine_call'.args[1]},
             b \in {IF engine_call'.args[2] # None THEN engine_call'.args[2][1]
                    ELSE bpm} :
             /\ engine_ret' # None
             /\ engine_ret'[1].phrase_start_server_ms = now + SixtyThousandOver(b)
             /\ engine_ret'[1].phrase_start_server_ms > now
             /\ engine_ret'[1].bpm = b
             /\ engine_ret'[1].slot_ms.num * 32 =
                    SixtyThousandOver(b) * engine_ret'[1].slot_ms.den
             /\ Tracker' = Tracker
             /\ Grid' = Grid
             /\ clusters' = clusters
             /\ canonical_events' = canonical_events]_vars

\* C26 happens: a bootstrap phrase was predicted without a bpm given, on an
\* engine whose tracker, fed with canonical events, is at 200 bpm: the
\* phrase starts 300 ms after server_time_ms.
C26_Witness ==
    /\ mode = "bootstrap"
    /\ bootstrap_predictor
    /\ engine_call.op = "predict_phrase"
    /\ engine_call.args[2] = None
    /\ engine_ret # None
    /\ engine_ret[1].bpm = max_bpm
    /\ engine_ret[1].phrase_start_server_ms = engine_call.args[1] + 300 * US
    /\ tempo_updates >= 2

---------------------------------------------------------------------------
(* TempoTracker: the next beat boundary *)

\* C27: for a tracker that has seen an event, get_next_phrase_start(t_now)
\* is the next beat boundary after t_now: no boundary t_last_beat + n beat_ms
\* lies after t_now and before the value returned, also when t_now is in
\* the last slot before a boundary.
C27_NoBoundarySkipped ==
    (phrase_call # None /\ t_last_beat # None) =>
        \A n \in -32..32 :
            ~(/\ phrase_call[1] < t_last_beat[1] + n * beat_ms
              /\ t_last_beat[1] + n * beat_ms < phrase_ret[1])

---------------------------------------------------------------------------
(* EventFusion: how long a cluster stays open *)

\* The event with timestamp x is in an open cluster.
IsOpen(x) ==
    \E j \in 1..Len(clusters) : \E i \in 1..Len(clusters[j]) :
        clusters[j][i].t_server_ms = x

\* The newest member of a cluster.
Newest(cluster) ==
    CHOOSE x \in Range(Timestamps(cluster)) :
        \A y \in Range(Timestamps(cluster)) : y <= x

\* Every event of a stream that starts a gap after x comes after this: the
\* events a cluster takes in lie within the window of its median, and the
\* cluster is finalized two windows after its newest member.
Horizon == 4 * window_ms

\* C28: in a stream with increasing timestamps, a cluster is finalized by
\* the first add_event whose timestamp is more than 2 * window_ms after
\* every member: it leaves the open clusters and its canonical event is
\* appended; and every event added becomes part of a canonical event in the
\* end, as long as the stream goes on.
C28_OpenClustersAreFinalized ==
    /\ [][fusion_added' # fusion_added =>
            \A j \in 1..Len(clusters) : \A newest \in {Newest(clusters[j])} :
               last_event'[1].t_server_ms - newest > 2 * window_ms =>
                  /\ ~IsOpen(newest)'
                  /\ \E k \in (Len(canonical_events) + 1)..Len(canonical_events') :
                        IsCanonicalOf(canonical_events'[k], clusters[j])]_vars
    /\ \A x \in {5 * US * n : n \in 0..((StreamEnd - Horizon) \div (5 * US))} :
          IsOpen(x) ~> ~IsOpen(x)

\* C28 happens: a cluster of three events, the newest 20 ms after the
\* oldest, was finalized by the event that came 70 ms after its newest.
C28_Witness ==
    /\ add_ret # None
    /\ add_ret[1].conf = 3
    /\ add_ret[1].spread_ms > 0
    /\ last_event[1].t_server_ms = add_ret[1].t_server_ms + 80 * US
    /\ Len(clusters) = 1

---------------------------------------------------------------------------
(* process_pulse and the canonical events of one call *)

\* The number of canonical events the step appends to canonical_events.
Finalized == Len(canonical_events') - Len(canonical_events)

IsPulseStep == pulses_sent' # pulses_sent

\* The first canonical event the step appends.
FirstFinalized == canonical_events'[Len(canonical_events) + 1]

\* Lines 498-509 run on the canonical event c at the server time now.
TrackedAndEncoded(c, now) ==
    \E tr \in {update(Tracker, c.t_server_ms)} :
       /\ Tracker' = [bpm |-> tr.bpm, beat_ms |-> tr.beat_ms,
                      t_last_beat |-> tr.t_last_beat]
       /\ tempo_updates' = tempo_updates + 1
       /\ tempo_last'[1].t = c.t_server_ms
       /\ grid_count' = grid_count + 1
       /\ grid_call'[1].event = c
       /\ Grid' = grid_add_event(Grid, c, get_slot_ms(tr),
                                 get_history_start(tr, now))
       /\ dur_patterns' = update_from_history(dur_patterns, hist_onset', hist_hold')

\* C29: a process_pulse call that finalizes more than one cluster returns
\* the first canonical event and passes that one alone to
\* TempoTracker.update, GridEncoder.add_event and update_from_history; the
\* tracker and the grid are called with nothing but the event a
\* process_pulse call returns, so the other events are only appended to
\* canonical_events.  A call that finalizes nothing changes the open
\* clusters and last_update_time and nothing else of the engine.
C29_OnlyTheReturnedEventIsTracked ==
    [][/\ (IsPulseStep /\ Finalized > 1) =>
             /\ engine_ret' = Some(FirstFinalized)
             /\ TrackedAndEncoded(FirstFinalized, engine_call'.args[2])
       /\ (tempo_updates' # tempo_updates \/ grid_count' # grid_count) =>
             /\ IsPulseStep
             /\ Finalized >= 1
             /\ engine_ret' = Some(FirstFinalized)
             /\ tempo_updates' = tempo_updates + 1
             /\ grid_count' = grid_count + 1
             /\ tempo_last'[1].t = FirstFinalized.t_server_ms
             /\ grid_call'[1].event = FirstFinalized
       /\ (IsPulseStep /\ Finalized = 0) =>
             /\ engine_ret' = None
             /\ last_update_time' = Some(engine_call'.args[2])
             /\ UNCHANGED <<canonical_events, offsets, drifts, offset_history>>
             /\ UNCHANGED <<bpm, beat_ms, t_last_beat, tempo_updates, tempo_last>>
             /\ UNCHANGED <<hist_onset, hist_hold, hist_conf, hist_start_time,
                            grid_count, grid_call>>
             /\ UNCHANGED <<pattern_ema, dur_patterns, mode, bootstrap_predictor>>
      ]_vars

\* C29 happens: the last process_pulse call finalized two clusters; the
\* tracker has seen the first canonical event and not the second.
C29_Witness ==
    /\ engine_call.op = "process_pulse"
    /\ Len(canonical_events) = 2
    /\ engine_ret = Some(canonical_events[1])
    /\ tempo_updates = 1
    /\ grid_count = 1
    /\ tempo_last[1].t = canonical_events[1].t_server_ms
    /\ canonical_events[2].t_server_ms # canonical_events[1].t_server_ms
    /\ Len(clusters) = 1

---------------------------------------------------------------------------
(* add_event and the cluster that receives the event *)

\* The cluster holds the event as its last member and is a new cluster or a
\* cluster that was open before the call with the event appended.
Received(cluster, event) ==
    /\ cluster # <<>>
    /\ cluster[Len(cluster)] = event
    /\ \/ cluster = <<event>>
       \/ \E j \in 1..Len(clusters) : cluster = Append(clusters[j], event)

\* C30: the cluster that receives the event of an add_event call, joined or
\* newly opened, is open after the call, and every canonical event the call
\* finalizes, the one returned among them, is the canonical event of a
\* cluster as it was before the call, which the event is no member of.
C30_ReceivingClusterStaysOpen ==
    [][fusion_added' # fusion_added =>
          \A event \in {last_event'[1]} :
             /\ \E k \in 1..Len(clusters') : Received(clusters'[k], event)
             /\ \A n \in (Len(canonical_events) + 1)..Len(canonical_events') :
                   \E j \in 1..Len(clusters) :
                      /\ IsCanonicalOf(canonical_events'[n], clusters[j])
                      /\ \A k \in 1..Len(clusters') :
                            clusters'[k] # Append(clusters[j], event)
             /\ add_ret' # None =>
                   /\ Finalized >= 1
                   /\ add_ret'[1] = FirstFinalized]_vars

\* C30 happens: the event joined an open cluster and the same call returned
\* the canonical event of another cluster.
C30_Witness ==
    /\ add_ret # None
    /\ \E k \in 1..Len(clusters) :
          /\ Len(clusters[k]) > 1
          /\ clusters[k][Len(clusters[k])] = last_event[1]
          /\ add_ret[1].t_server_ms < Median(Timestamps(clusters[k])) - 2 * window_ms

====
